---- MODULE Spec2Model ----
(***************************************************************************)
(* Model of the resumable provisioning orchestrator of upright_setup:      *)
(* the state document infra/state.json, the password document, the         *)
(* in-memory run state, the provider (compute nodes, boot scripts, DNS     *)
(* zones) and the control flow of run_main / resume_mode, one action per   *)
(* step between two externally visible effects, so that a kill of the      *)
(* process can be placed between any two of them.                          *)
(***************************************************************************)
EXTENDS Naturals, Sequences, FiniteSets, TLC

VARIABLES
    disk,        \* infra/state.json: NoFile, Torn, or a document
    pwfile,      \* infra/passwords.json: code -> linode_id of the entry (0: none)
    state,       \* self.state of the running process (None: not loaded)
    cfg,         \* self.cfg of the running process
    pc,          \* position of the running process ("idle": no process)
    i,           \* index into CodeSeq of the loop the process is in
    created,     \* provision_nodes' local dict `created`
    pending,     \* _wait_for_linode_batch's local set `pending`
    polls,       \* poll rounds done by the polling loop the process is in
    ret,         \* create_node's local linode_id / the ensured DNS record id /
                 \* verify_dns_records' local `resolved`
    outcome,     \* how the last process ended
    linodes,     \* provider: the compute nodes that exist, [id, code]
    addressed,   \* provider: ids of the nodes that have a public IPv4
    nextId,      \* provider: id the next created node gets
    scripts,     \* provider: ids of the boot scripts with the label
    zone,        \* DNS providers: provider -> code -> [id, target]
    nextRec,     \* DNS providers: id the next created record gets
    createCalls, \* per code: create calls that returned since init_state
    steps,       \* top-level steps the current process has entered
    startPhase,  \* phase the current process loaded on resume
    wrote,       \* the last step of the process wrote a document
    runs,        \* processes started so far
    stub,        \* fixed external responses (SpecPair), or free
    leg,         \* "main", or the leg of the paired run: "ref", "test"
    ref,         \* result of the uninterrupted reference run (SpecPair)
    archives,    \* infra/state.destroyed.<stamp>.json: set of [stamp, doc]
    pwarchives,  \* infra/passwords.destroyed.<stamp>.json: set of [stamp, doc]
    scaffold     \* a wizard-created local app repo exists, marked in the state

procVars  == <<state, cfg, pc, i, created, pending, polls, ret, outcome>>
worldVars == <<disk, pwfile, linodes, addressed, nextId, scripts, zone, nextRec>>
ghostVars == <<createCalls, steps, startPhase, wrote, runs>>
pairVars  == <<stub, leg, ref>>
archVars  == <<archives, pwarchives, scaffold>>
vars == <<procVars, worldVars, ghostVars, pairVars, archVars>>

----------------------------------------------------------------------------
(* Bounds of the model. *)

MaxRuns == 2        \* processes started in one behaviour
MaxLinodes == 5     \* compute nodes the provider hands out
PollBudget == 2     \* poll rounds of _wait_for_linode_batch (source: 40)
DnsPollBudget == 2  \* polls per node of verify_dns_records (source: 30)
MaxUnaddressed == 1 \* nodes a fixed stub never gives an address (SpecPair)
MaxPreexisting == 2 \* names with an A record before DNS is configured (SpecDns)

----------------------------------------------------------------------------
(* Fixed data. *)

CodeSeq == <<"app", "ord", "iad", "sea">>
Codes == {CodeSeq[k] : k \in 1..Len(CodeSeq)}

PhaseSeq == <<"planning", "planned", "provisioning", "provisioned",
              "dns_configuring", "dns_configured", "config_generating",
              "config_generated", "deploying", "deployed">>
Phases == {PhaseSeq[k] : k \in 1..Len(PhaseSeq)}
Rank(p) == IF p \in Phases THEN CHOOSE k \in 1..Len(PhaseSeq) : PhaseSeq[k] = p ELSE 0

DnsProviders == {"linode-dns", "cloudflare-dns"}
DnsModes == DnsProviders \cup {"manual"}

(* A document is a record with kind "doc"; the other kinds carry nothing. *)
NoFile == [kind |-> "nofile"]
Torn == [kind |-> "torn"]
None == [kind |-> "none"]
IsDoc(d) == d.kind = "doc"

(* An optional argument: Nil for None. *)
Nil == <<>>
Some(v) == <<v>>

NoRecord == [provider |-> "", record_id |-> 0, target |-> 0]
NoZoneRec == [id |-> 0, target |-> 0]
NoCreated == [c \in Codes |-> [linode_id |-> 0, ipv4 |-> 0, status |-> ""]]
NoPasswords == [c \in Codes |-> 0]
(* deploy_flag keeps run_deploy as the flags gave it: resume_mode           *)
(* overwrites cfg.run_deploy when it resumes from the phase deploying.      *)
NoCfg == [dry_run |-> FALSE, resume |-> FALSE, non_interactive |-> FALSE,
          manual_dns_confirmed |-> FALSE, run_deploy |-> "", cloudflare_api_token |-> FALSE,
          dns_mode |-> "", stackscript_id |-> 0, current_phase |-> "",
          destroy |-> FALSE, confirm_destroy |-> FALSE, delete_stackscript |-> FALSE,
          deploy_flag |-> ""]

(* The flag sets a process is started with. *)
Flags(dry, nonint, confirmed, deploy, token) ==
    [dry_run |-> dry, non_interactive |-> nonint, manual_dns_confirmed |-> confirmed,
     run_deploy |-> deploy, cloudflare_api_token |-> token]
Interactive == Flags(FALSE, FALSE, FALSE, "", TRUE)
Unattended  == Flags(FALSE, TRUE, TRUE, "yes", TRUE)
Bare        == Flags(FALSE, TRUE, FALSE, "", FALSE)
SkipDeploy  == Flags(FALSE, FALSE, FALSE, "no", TRUE)
DryRun      == Flags(TRUE, FALSE, FALSE, "", TRUE)
DryUnattended == Flags(TRUE, TRUE, FALSE, "", FALSE)
FlagSets == {Interactive, Unattended, Bare, SkipDeploy, DryRun}

FreeStub == [fixed |-> FALSE, addr |-> [c \in Codes |-> TRUE], dns |-> TRUE,
             deploy |-> TRUE, answer |-> TRUE, flags |-> Interactive, mode |-> "manual"]

(* The outcomes an external call or an operator's answer can have. *)
CallOutcomes == IF stub.fixed THEN {TRUE} ELSE BOOLEAN
DigOutcomes == IF stub.fixed THEN {stub.dns} ELSE BOOLEAN
DeployOutcomes == IF stub.fixed THEN {stub.deploy} ELSE BOOLEAN
Answers == IF stub.fixed THEN {stub.answer} ELSE BOOLEAN
AddressOutcomes(p) ==
    IF stub.fixed THEN {{c \in p : stub.addr[c]}} ELSE SUBSET p

----------------------------------------------------------------------------
(* State Store (state_ops.py). *)

(* save_state: writes self.state to infra/state.json unless dry-run. *)
SaveStateSkips(s) == disk
SaveStateAlways(s) == s
SaveState(s) == IF cfg.dry_run THEN disk ELSE s
Saves == ~cfg.dry_run

(* init_state's document. *)
FreshState ==
    [kind |-> "doc", phase |-> "planning", stack_id |-> 0, dns_mode |-> cfg.dns_mode,
     dns_status |-> "pending", records |-> [c \in Codes |-> NoRecord],
     nodes |-> [c \in Codes |-> [linode_id |-> 0, ipv4 |-> 0, status |-> "planned"]]]

SetPhase(s, p) == [s EXCEPT !.phase = p]
SetDnsStatus(s, st) == [s EXCEPT !.dns_status = st]
SetDnsRecordNoTarget(s, c, prov, rid, ip) ==
    [s EXCEPT !.records[c] = [provider |-> prov, record_id |-> rid, target |-> 0]]
SetDnsRecord(s, c, prov, rid, ip) ==
    [s EXCEPT !.records[c] = [provider |-> prov, record_id |-> rid, target |-> ip]]
UpdateNodeDropsId(s, c, id, ip, st) ==
    [s EXCEPT !.nodes[c] = [linode_id |-> @.linode_id,
                            ipv4 |-> IF ip # Nil THEN ip[1] ELSE @.ipv4,
                            status |-> IF st # Nil THEN st[1] ELSE @.status]]
UpdateNodeDropsIp(s, c, id, ip, st) ==
    [s EXCEPT !.nodes[c] = [linode_id |-> IF id # Nil THEN id[1] ELSE @.linode_id,
                            ipv4 |-> @.ipv4,
                            status |-> IF st # Nil THEN st[1] ELSE @.status]]
UpdateNode(s, c, id, ip, st) ==
    [s EXCEPT !.nodes[c] = [linode_id |-> IF id # Nil THEN id[1] ELSE @.linode_id,
                            ipv4 |-> IF ip # Nil THEN ip[1] ELSE @.ipv4,
                            status |-> IF st # Nil THEN st[1] ELSE @.status]]
NodeIpv4(s, c) == s.nodes[c].ipv4
NodeLinodeId(s, c) == s.nodes[c].linode_id

----------------------------------------------------------------------------
(* Process control. *)

Goto(l) == pc' = l /\ outcome' = "running"

(* The process ends: die() raises SetupError (exit 1), a normal return is   *)
(* exit 0, "error" an uncaught exception, "killed" a kill of the process.   *)
Halt(o) ==
    /\ pc' = "idle"
    /\ outcome' = o
    /\ state' = None
    /\ cfg' = NoCfg
    /\ i' = 0
    /\ created' = NoCreated
    /\ pending' = {}
    /\ polls' = 0
    /\ ret' = 0

Enter(step) == steps' = Append(steps, step)

Init ==
    /\ disk = NoFile
    /\ pwfile = NoPasswords
    /\ state = None
    /\ cfg = NoCfg
    /\ pc = "idle"
    /\ i = 0
    /\ created = NoCreated
    /\ pending = {}
    /\ polls = 0
    /\ ret = 0
    /\ outcome = "none"
    /\ linodes = {}
    /\ addressed = {}
    /\ nextId = 1
    /\ scripts = {}
    /\ zone = [p \in DnsProviders |-> [c \in Codes |-> NoZoneRec]]
    /\ nextRec = 1
    /\ createCalls = [c \in Codes |-> 0]
    /\ steps = <<>>
    /\ startPhase = ""
    /\ wrote = FALSE
    /\ runs = 0
    /\ stub = FreeStub
    /\ leg = "main"
    /\ ref = None
    /\ archives = {}
    /\ pwarchives = {}
    /\ scaffold = FALSE

DieRetries ==
    IF polls < 1
      THEN /\ pc' = pc /\ outcome' = "running" /\ polls' = polls + 1
           /\ UNCHANGED <<state, cfg, i, created, pending, ret>>
      ELSE Halt("die")
Die == Halt("die")

(* What a step leaves alone. *)
Locals == <<i, created, pending, polls, ret>>
Provider == <<linodes, addressed, nextId, scripts, zone, nextRec>>
Ghosts == <<createCalls, steps, startPhase, runs>>

----------------------------------------------------------------------------
(* run_main, fresh run (flow_ops.py 68-101). *)

(* The process is started without --resume and without --destroy. *)
RunMain(f, m) ==
    /\ pc = "idle"
    /\ runs < MaxRuns
    /\ cfg' = [NoCfg EXCEPT !.dry_run = f.dry_run, !.non_interactive = f.non_interactive,
                            !.manual_dns_confirmed = f.manual_dns_confirmed,
                            !.run_deploy = f.run_deploy,
                            !.deploy_flag = f.run_deploy,
                            !.cloudflare_api_token = f.cloudflare_api_token,
                            !.dns_mode = m]
    /\ Goto("prompt_inputs")
    /\ steps' = <<>>
    /\ startPhase' = ""
    /\ runs' = runs + 1
    /\ wrote' = FALSE
    /\ UNCHANGED <<state, Locals, worldVars, createCalls, pairVars, archVars>>

(* preflight, ensure_linode_auth, load_ssh_pubkey, prompt_inputs, confirm_plan: *)
(* each dies on a failed check, none touches the documents.                    *)
PromptInputs ==
    /\ pc = "prompt_inputs"
    /\ \E ok \in CallOutcomes :
         IF ok THEN Goto("clear_password_state") /\ UNCHANGED <<state, cfg, Locals>>
               ELSE Die
    /\ wrote' = FALSE
    /\ UNCHANGED <<worldVars, Ghosts, pairVars, archVars>>

(* init_state, first half: clear_password_state unless dry-run. *)
ClearPasswordState ==
    /\ pc = "clear_password_state"
    /\ pwfile' = IF cfg.dry_run THEN pwfile ELSE NoPasswords
    /\ Goto("init_state")
    /\ wrote' = FALSE
    /\ UNCHANGED <<state, cfg, Locals, disk, Provider, Ghosts, pairVars, archVars>>

(* init_state, second half: the planning document, saved. *)
InitState ==
    /\ pc = "init_state"
    /\ state' = FreshState
    /\ disk' = SaveState(FreshState)
    /\ createCalls' = IF Saves THEN [c \in Codes |-> 0] ELSE createCalls
    /\ Goto("ensure_stackscript")
    /\ wrote' = Saves
    /\ UNCHANGED <<cfg, Locals, pwfile, Provider, steps, startPhase, runs, pairVars, archVars>>

----------------------------------------------------------------------------
(* Resource Reconciler: boot script and compute nodes (provision_ops.py). *)

(* The id ensure_stackscript resolves, given the scripts found by label. *)
FirstScript == CHOOSE x \in scripts : \A y \in scripts : x <= y
NewScript == Cardinality(scripts) + 1

EnsuredScriptsAlwaysCreates(ss) == ss \cup {Cardinality(ss) + 1}
(* The caller's scripts with the label after ensure_stackscript: the one    *)
(* found is updated in place, and one is created only if none was found.    *)
EnsuredScripts(ss) == IF ss # {} THEN ss ELSE {NewScript}

EnsureStackscript ==
    /\ pc = "ensure_stackscript"
    /\ Enter("ensure_stackscript")
    /\ IF cfg.dry_run
         THEN /\ cfg' = [cfg EXCEPT !.stackscript_id = 0]
              /\ Goto("save_stackscript_id")
              /\ UNCHANGED <<state, Locals, scripts>>
         ELSE \E ok \in CallOutcomes :
                IF ok
                  THEN /\ scripts' = EnsuredScripts(scripts)
                       /\ cfg' = [cfg EXCEPT !.stackscript_id =
                                     IF scripts # {} THEN FirstScript ELSE NewScript]
                       /\ Goto("save_stackscript_id")
                       /\ UNCHANGED <<state, Locals>>
                  ELSE Die /\ UNCHANGED scripts
    /\ wrote' = FALSE
    /\ UNCHANGED <<disk, pwfile, linodes, addressed, nextId, zone, nextRec,
                   createCalls, startPhase, runs, pairVars, archVars>>

(* state["stackscript"]["id"] = int(cfg.stackscript_id or 0); save_state() *)
SaveStackscriptId ==
    /\ pc = "save_stackscript_id"
    /\ state' = [state EXCEPT !.stack_id = cfg.stackscript_id]
    /\ disk' = SaveState(state')
    /\ Goto("provision_nodes")
    /\ wrote' = Saves
    /\ UNCHANGED <<cfg, Locals, pwfile, Provider, Ghosts, pairVars, archVars>>

(* provision_nodes: set_phase("provisioning"), then the create loop. *)
ProvisionNodes ==
    /\ pc = "provision_nodes"
    /\ Enter("provision_nodes")
    /\ state' = SetPhase(state, "provisioning")
    /\ disk' = SaveState(state')
    /\ i' = 1
    /\ created' = NoCreated
    /\ Goto("create_node")
    /\ wrote' = Saves
    /\ UNCHANGED <<cfg, pending, polls, ret, pwfile, Provider,
                   createCalls, startPhase, runs, pairVars, archVars>>

AlreadyCreatedNever(s, c) == FALSE
(* create_node's fast path: the state already records a linode_id for code. *)
AlreadyCreated(s, c) == s.nodes[c].linode_id # 0

(* The row provision_nodes keeps for a node create_node returned an id for. *)
CreatedRow(id) == [linode_id |-> id, ipv4 |-> 0, status |-> "provisioning"]

(* After create_node(CodeSeq[i]) returned: the next code, or the end of the loop. *)
AfterCreate(cr) ==
    /\ created' = cr
    /\ ret' = 0
    /\ IF i < Len(CodeSeq)
         THEN i' = i + 1 /\ Goto("create_node") /\ UNCHANGED <<pending, polls>>
         ELSE IF ~cfg.dry_run /\ \E c \in Codes : cr[c].linode_id # 0
           THEN /\ pending' = {c \in Codes : cr[c].linode_id # 0}
                /\ polls' = 0
                /\ i' = 0
                /\ Goto("wait_for_linode_batch")
           ELSE i' = 0 /\ Goto("provision_done") /\ UNCHANGED <<pending, polls>>

(* create_node up to the return of the provider's create call. *)
CreateNode ==
    /\ pc = "create_node"
    /\ LET c == CodeSeq[i] IN
       IF AlreadyCreated(state, c)
         THEN /\ AfterCreate(IF cfg.dry_run THEN created
                             ELSE [created EXCEPT ![c] = CreatedRow(state.nodes[c].linode_id)])
              /\ UNCHANGED <<state, cfg, linodes, nextId, createCalls>>
         ELSE IF cfg.dry_run
           THEN AfterCreate(created) /\ UNCHANGED <<state, cfg, linodes, nextId, createCalls>>
           ELSE \E ok \in CallOutcomes :
                  IF ok
                    THEN /\ nextId <= MaxLinodes
                         /\ linodes' = linodes \cup {[id |-> nextId, code |-> c]}
                         /\ nextId' = nextId + 1
                         /\ createCalls' = [createCalls EXCEPT ![c] = @ + 1]
                         /\ ret' = nextId
                         /\ Goto("update_node")
                         /\ UNCHANGED <<state, cfg, i, created, pending, polls>>
                    ELSE Die /\ UNCHANGED <<linodes, nextId, createCalls>>
    /\ wrote' = FALSE
    /\ UNCHANGED <<disk, pwfile, addressed, scripts, zone, nextRec,
                   steps, startPhase, runs, pairVars, archVars>>

(* create_node: update_node(code, linode_id=..., status="provisioning"). *)
CreateNodeUpdate ==
    /\ pc = "update_node"
    /\ state' = UpdateNode(state, CodeSeq[i], Some(ret), Nil, Some("provisioning"))
    /\ disk' = SaveState(state')
    /\ Goto("record_node_passwords")
    /\ wrote' = Saves
    /\ UNCHANGED <<cfg, Locals, pwfile, Provider, Ghosts, pairVars, archVars>>

(* A password document cut short by a kill inside write_text. *)
TornPasswords == [kind |-> "torn"]

(* load_password_state: a missing or unparseable document reads as empty. *)
LoadPasswordState(f) == IF f = TornPasswords THEN NoPasswords ELSE f

(* create_node: record_node_passwords(code, linode_id=...), then return. *)
RecordNodePasswords ==
    /\ pc = "record_node_passwords"
    /\ pwfile' = [LoadPasswordState(pwfile) EXCEPT ![CodeSeq[i]] = ret]
    /\ AfterCreate([created EXCEPT ![CodeSeq[i]] = CreatedRow(ret)])
    /\ wrote' = TRUE
    /\ UNCHANGED <<state, cfg, disk, Provider, Ghosts, pairVars, archVars>>

----------------------------------------------------------------------------
(* Provisioning Poller (provision_ops.py 144-233). *)

IdsOf(cs) == {created[c].linode_id : c \in cs}

(* _linode_status as the provider answers it for node id. *)
LinodeStatus(id, up) ==
    [status |-> IF id \in up THEN "running" ELSE "provisioning",
     ipv4 |-> IF id \in up THEN id ELSE 0]

BatchDoneWhenEmpty(p, n) == p = {}
(* The loop's two breaks after a poll tick: nothing pending, or the budget  *)
(* of poll intervals has elapsed.                                           *)
BatchDone(p, n) == p = {} \/ n >= PollBudget

(* One poll tick: every pending node is queried; nodes with an address leave. *)
WaitForLinodeBatchPoll ==
    /\ pc = "wait_for_linode_batch"
    /\ \E ok \in CallOutcomes :
         IF ok
           THEN \E got \in AddressOutcomes({c \in pending : created[c].linode_id \notin addressed}) :
                  /\ addressed' = addressed \cup IdsOf(got)
                  /\ created' = [c \in Codes |->
                                   IF c \in pending
                                     THEN [created[c] EXCEPT
                                             !.status = LinodeStatus(created[c].linode_id, addressed').status,
                                             !.ipv4 = LinodeStatus(created[c].linode_id, addressed').ipv4]
                                     ELSE created[c]]
                  /\ pending' = {c \in pending : created'[c].ipv4 = 0}
                  /\ polls' = polls + 1
                  /\ IF BatchDone(pending', polls')
                       THEN i' = 1 /\ Goto("batch_update_node")
                       ELSE i' = i /\ Goto("wait_for_linode_batch")
                  /\ UNCHANGED <<state, cfg, ret>>
           ELSE Die /\ UNCHANGED addressed
    /\ wrote' = FALSE
    /\ UNCHANGED <<disk, pwfile, linodes, nextId, scripts, zone, nextRec, Ghosts, pairVars, archVars>>

(* After the loop: update_node(code, linode_id, ipv4, status) for each created code. *)
WaitForLinodeBatchUpdate ==
    /\ pc = "batch_update_node"
    /\ LET c == CodeSeq[i]
           row == created[c] IN
       /\ state' = IF row.linode_id = 0 THEN state
                   ELSE UpdateNode(state, c, Some(row.linode_id), Some(row.ipv4), Some(row.status))
       /\ disk' = IF row.linode_id = 0 THEN disk ELSE SaveState(state')
       /\ wrote' = (row.linode_id # 0 /\ Saves)
    /\ IF i < Len(CodeSeq) THEN i' = i + 1 /\ Goto("batch_update_node")
                           ELSE i' = 0 /\ Goto("provision_done")
    /\ UNCHANGED <<cfg, created, pending, polls, ret, pwfile, Provider, Ghosts, pairVars, archVars>>

(* provision_nodes' last line: set_phase("planned" if dry_run else "provisioned"). *)
ProvisionDone ==
    /\ pc = "provision_done"
    /\ state' = SetPhase(state, IF cfg.dry_run THEN "planned" ELSE "provisioned")
    /\ disk' = SaveState(state')
    /\ Goto("configure_dns")
    /\ wrote' = Saves
    /\ UNCHANGED <<cfg, Locals, pwfile, Provider, Ghosts, pairVars, archVars>>

----------------------------------------------------------------------------
(* Resource Reconciler: DNS records, and the DNS Verifier (dns_ops.py). *)

(* configure_dns: set_phase("dns_configuring"). *)
ConfigureDns ==
    /\ pc = "configure_dns"
    /\ Enter("configure_dns")
    /\ state' = SetPhase(state, "dns_configuring")
    /\ disk' = SaveState(state')
    /\ Goto("set_dns_status")
    /\ wrote' = Saves
    /\ UNCHANGED <<cfg, Locals, pwfile, Provider, createCalls, startPhase, runs, pairVars, archVars>>

(* The branch configure_dns takes for a DNS mode. *)
DnsBranch(mode) ==
    CASE mode = "linode-dns" -> "dns_zone"
      [] mode = "cloudflare-dns" -> "dns_zone"
      [] mode = "manual" -> "show_manual_dns_instructions"
      [] OTHER -> "unsupported_dns_mode"

(* configure_dns: set_dns_status("in_progress"), then the mode's branch. *)
SetDnsInProgress ==
    /\ pc = "set_dns_status"
    /\ state' = SetDnsStatus(state, "in_progress")
    /\ disk' = SaveState(state')
    /\ IF DnsBranch(cfg.dns_mode) = "unsupported_dns_mode"
         THEN Die
         ELSE Goto(DnsBranch(cfg.dns_mode)) /\ UNCHANGED <<cfg, Locals>>
    /\ wrote' = Saves
    /\ UNCHANGED <<pwfile, Provider, Ghosts, pairVars, archVars>>

(* ensure_linode_dns_records 24-28: the zone lookup (also in dry-run);       *)
(* ensure_cloudflare_dns_records 116-127: token check and zone lookup unless *)
(* dry-run.                                                                  *)
EnsureDnsZone ==
    /\ pc = "dns_zone"
    /\ \E ok \in CallOutcomes, typed \in Answers :
         LET skip == cfg.dns_mode = "cloudflare-dns" /\ cfg.dry_run
             token == cfg.cloudflare_api_token \/ (~cfg.non_interactive /\ typed)
             found == IF cfg.dns_mode = "cloudflare-dns" THEN token /\ ok ELSE ok
         IN IF skip \/ found
              THEN i' = 1 /\ Goto("ensure_dns_record")
                   /\ UNCHANGED <<state, cfg, created, pending, polls, ret>>
              ELSE Die
    /\ wrote' = FALSE
    /\ UNCHANGED <<worldVars, Ghosts, pairVars, archVars>>

(* After the record of CodeSeq[i] is done with: the next code, or verification. *)
AfterDnsRecord ==
    /\ ret' = 0
    /\ polls' = 0
    /\ IF i < Len(CodeSeq) THEN i' = i + 1 /\ Goto("ensure_dns_record")
                           ELSE i' = 1 /\ Goto("verify_dns_records")

FoundRecordNone(z, mode, c) == 0
(* The id of the A record the provider lists for the name of code, 0 if none. *)
FoundRecord(z, mode, c) == z[mode][c].id

(* One iteration of the ensure loop up to the provider's update/create call: *)
(* lookup by name, update in place if found, else create.                    *)
EnsureDnsRecord ==
    /\ pc = "ensure_dns_record"
    /\ LET c == CodeSeq[i]
           ip == NodeIpv4(state, c)
           found == FoundRecord(zone, cfg.dns_mode, c) IN
       IF ip = 0
         THEN Die /\ UNCHANGED <<zone, nextRec>>
         ELSE IF cfg.dry_run
           THEN AfterDnsRecord /\ UNCHANGED <<state, cfg, created, pending, zone, nextRec>>
           ELSE \E ok \in CallOutcomes :
                  IF ok
                    THEN /\ zone' = [zone EXCEPT ![cfg.dns_mode][c] =
                                       [id |-> IF found # 0 THEN found ELSE nextRec, target |-> ip]]
                         /\ nextRec' = IF found # 0 THEN nextRec ELSE nextRec + 1
                         /\ ret' = IF found # 0 THEN found ELSE nextRec
                         /\ Goto("set_dns_record")
                         /\ UNCHANGED <<state, cfg, i, created, pending, polls>>
                    ELSE Die /\ UNCHANGED <<zone, nextRec>>
    /\ wrote' = FALSE
    /\ UNCHANGED <<disk, pwfile, linodes, addressed, nextId, scripts, Ghosts, pairVars, archVars>>

(* set_dns_record(code, provider, record_id, ..., target=ip), saved. *)
EnsureDnsRecordSave ==
    /\ pc = "set_dns_record"
    /\ state' = SetDnsRecord(state, CodeSeq[i], cfg.dns_mode, ret, NodeIpv4(state, CodeSeq[i]))
    /\ disk' = SaveState(state')
    /\ AfterDnsRecord
    /\ wrote' = Saves
    /\ UNCHANGED <<cfg, created, pending, pwfile, Provider, Ghosts, pairVars, archVars>>

ManualDnsAlwaysProceeds(c) == TRUE
(* show_manual_dns_instructions returns (rather than dies): dry-run, an     *)
(* interactive run (Enter at the prompt), or --manual-dns-confirmed.        *)
ManualDnsMayProceed(c) == c.dry_run \/ ~c.non_interactive \/ c.manual_dns_confirmed

(* show_manual_dns_instructions. *)
ShowManualDnsInstructions ==
    /\ pc = "show_manual_dns_instructions"
    /\ IF ManualDnsMayProceed(cfg)
         THEN /\ i' = 1 /\ polls' = 0 /\ Goto("verify_dns_records")
              /\ UNCHANGED <<state, cfg, created, pending, ret>>
         ELSE Die
    /\ wrote' = FALSE
    /\ UNCHANGED <<worldVars, Ghosts, pairVars, archVars>>

(* What `dig +short A fqdn` answers: nothing yet, or the address the zone  *)
(* (in manual mode the operator's record) holds for the name.              *)
Dig(c, hit) ==
    IF ~hit THEN 0
    ELSE IF cfg.dns_mode \in DnsProviders THEN zone[cfg.dns_mode][c].target
    ELSE NodeIpv4(state, c)

DnsMatchesAny(expected, resolved) == TRUE
(* verify_dns_records' test of one answer against the expected address. *)
DnsMatches(expected, resolved) == expected # 0 /\ resolved = expected

(* verify_dns_records: skipped in dry-run; else one poll of CodeSeq[i],     *)
(* whose answer is kept in the local `resolved` (ret).                      *)
VerifyDnsRecords ==
    /\ pc = "verify_dns_records"
    /\ IF cfg.dry_run
         THEN /\ i' = 0 /\ polls' = 0 /\ Goto("dns_status_configured")
              /\ UNCHANGED <<state, cfg, created, pending, ret>>
         ELSE \E hit \in DigOutcomes :
                LET c == CodeSeq[i] IN
                IF DnsMatches(NodeIpv4(state, c), Dig(c, hit))
                  THEN /\ polls' = 0
                       /\ ret' = Dig(c, hit)
                       /\ IF i < Len(CodeSeq)
                            THEN i' = i + 1 /\ Goto("verify_dns_records")
                            ELSE i' = 0 /\ Goto("dns_status_configured")
                       /\ UNCHANGED <<state, cfg, created, pending>>
                  ELSE IF polls + 1 >= DnsPollBudget
                    THEN Die
                    ELSE /\ polls' = polls + 1 /\ Goto("verify_dns_records")
                         /\ ret' = Dig(c, hit)
                         /\ UNCHANGED <<state, cfg, i, created, pending>>
    /\ wrote' = FALSE
    /\ UNCHANGED <<worldVars, Ghosts, pairVars, archVars>>

(* configure_dns: set_dns_status("configured"). *)
SetDnsConfigured ==
    /\ pc = "dns_status_configured"
    /\ state' = SetDnsStatus(state, "configured")
    /\ disk' = SaveState(state')
    /\ Goto("dns_configured")
    /\ wrote' = Saves
    /\ UNCHANGED <<cfg, Locals, pwfile, Provider, Ghosts, pairVars, archVars>>

(* configure_dns: set_phase("dns_configured"). *)
DnsConfigured ==
    /\ pc = "dns_configured"
    /\ state' = SetPhase(state, "dns_configured")
    /\ disk' = SaveState(state')
    /\ Goto("write_config_files")
    /\ wrote' = Saves
    /\ UNCHANGED <<cfg, Locals, pwfile, Provider, Ghosts, pairVars, archVars>>

----------------------------------------------------------------------------
(* Config generation and deploy (deploy_ops.py, repo_ops.py). *)

(* write_config_files: set_phase("config_generating"). *)
WriteConfigFiles ==
    /\ pc = "write_config_files"
    /\ Enter("write_config_files")
    /\ state' = SetPhase(state, "config_generating")
    /\ disk' = SaveState(state')
    /\ Goto("config_repo")
    /\ wrote' = Saves
    /\ UNCHANGED <<cfg, Locals, pwfile, Provider, createCalls, startPhase, runs, pairVars, archVars>>

(* ensure_local_app_repo: record_local_repo_state saves the state, then the *)
(* repo checks and the bootstrap commands, each of which may die.           *)
ConfigRepo ==
    /\ pc = "config_repo"
    /\ disk' = SaveState(state)
    /\ \E ok \in CallOutcomes :
         IF ok THEN Goto("config_write") /\ UNCHANGED <<state, cfg, Locals>>
               ELSE Die
    /\ wrote' = Saves
    /\ UNCHANGED <<pwfile, Provider, Ghosts, pairVars, archVars>>

AllNodesHaveIp(s) == \A c \in Codes : NodeIpv4(s, c) # 0

(* write_config_files after the repo: dry-run ends in "config_planned";     *)
(* else the address check, the files, and set_phase("config_generated").    *)
ConfigWrite ==
    /\ pc = "config_write"
    /\ IF cfg.dry_run
         THEN /\ state' = SetPhase(state, "config_planned")
              /\ disk' = SaveState(state')
              /\ Goto("run_kamal_deploy")
              /\ UNCHANGED <<cfg, Locals>>
         ELSE IF ~AllNodesHaveIp(state)
           THEN Die /\ UNCHANGED disk
           ELSE /\ state' = SetPhase(state, "config_generated")
                /\ disk' = SaveState(state')
                /\ Goto("run_kamal_deploy")
                /\ UNCHANGED <<cfg, Locals>>
    /\ wrote' = (Saves /\ AllNodesHaveIp(state))
    /\ UNCHANGED <<pwfile, Provider, Ghosts, pairVars, archVars>>

DeployApprovedUnlessSkipped(c, prereq, yes) == prereq /\ c.run_deploy # "no"
(* run_kamal_deploy's decision whether the deploy command is run           *)
(* (deploy_mode "local"): prerequisites present, not skipped, approved.    *)
DeployApproved(c, prereq, yes) ==
    /\ prereq
    /\ ~(c.run_deploy = "no" \/ (c.non_interactive /\ c.run_deploy # "yes"))
    /\ (c.run_deploy = "yes" \/ yes)

DeployNextStartsCommand(c, prereq, yes) ==
    IF DeployApproved(c, prereq, yes) THEN "kamal" ELSE "post_deploy_checks"
(* Where run_kamal_deploy goes after ensure_local_app_repo: a missing       *)
(* prerequisite shows the bootstrap steps and returns; a run that is not    *)
(* approved returns; else set_phase("deploying").                           *)
DeployNext(c, prereq, yes) ==
    IF ~prereq THEN "show_local_bootstrap_steps"
    ELSE IF DeployApproved(c, prereq, yes) THEN "deploying"
    ELSE "post_deploy_checks"

(* run_kamal_deploy up to set_phase("deploying"). *)
RunKamalDeploy ==
    /\ pc = "run_kamal_deploy"
    /\ Enter("run_kamal_deploy")
    /\ IF cfg.dry_run
         THEN Goto("post_deploy_checks") /\ UNCHANGED <<state, cfg, Locals, disk>>
         ELSE /\ disk' = SaveState(state)
              /\ \E ok \in CallOutcomes, prereq \in CallOutcomes, yes \in Answers :
                   IF ~ok THEN Die
                   ELSE /\ Goto(DeployNext(cfg, prereq, yes))
                        /\ UNCHANGED <<state, cfg, Locals>>
    /\ wrote' = Saves
    /\ UNCHANGED <<pwfile, Provider, createCalls, startPhase, runs, pairVars, archVars>>

(* run_kamal_deploy with a missing prerequisite: the warning and           *)
(* show_local_bootstrap_steps, then the return.                             *)
ShowLocalBootstrapSteps ==
    /\ pc = "show_local_bootstrap_steps"
    /\ Goto("post_deploy_checks")
    /\ wrote' = FALSE
    /\ UNCHANGED <<state, cfg, Locals, worldVars, Ghosts, pairVars, archVars>>

(* set_phase("deploying"). *)
Deploying ==
    /\ pc = "deploying"
    /\ state' = SetPhase(state, "deploying")
    /\ disk' = SaveState(state')
    /\ Goto("kamal")
    /\ wrote' = Saves
    /\ UNCHANGED <<cfg, Locals, pwfile, Provider, Ghosts, pairVars, archVars>>

(* The deploy command: bin/kamal setup, bin/kamal deploy. *)
Kamal ==
    /\ pc = "kamal"
    /\ \E ok \in DeployOutcomes :
         IF ok THEN Goto("deployed") /\ UNCHANGED <<state, cfg, Locals>>
               ELSE Die
    /\ wrote' = FALSE
    /\ UNCHANGED <<worldVars, Ghosts, pairVars, archVars>>

(* set_phase("deployed"). *)
Deployed ==
    /\ pc = "deployed"
    /\ state' = SetPhase(state, "deployed")
    /\ disk' = SaveState(state')
    /\ Goto("post_deploy_checks")
    /\ wrote' = Saves
    /\ UNCHANGED <<cfg, Locals, pwfile, Provider, Ghosts, pairVars, archVars>>

(* post_deploy_checks only warns; the flow then returns and the process exits 0. *)
PostDeployChecks ==
    /\ pc = "post_deploy_checks"
    /\ Enter("post_deploy_checks")
    /\ Halt("ok")
    /\ wrote' = FALSE
    /\ UNCHANGED <<worldVars, createCalls, startPhase, runs, pairVars, archVars>>

----------------------------------------------------------------------------
(* resume_mode (flow_ops.py 22-55). *)

ResumeDnsArgs == {""}

(* The process is started with --resume; m is --dns-mode ("" when not given). *)
RunResume(f, m) ==
    /\ pc = "idle"
    /\ runs < MaxRuns
    /\ cfg' = [NoCfg EXCEPT !.dry_run = f.dry_run, !.non_interactive = f.non_interactive,
                            !.manual_dns_confirmed = f.manual_dns_confirmed,
                            !.run_deploy = f.run_deploy,
                            !.deploy_flag = f.run_deploy,
                            !.cloudflare_api_token = f.cloudflare_api_token,
                            !.resume = TRUE,
                            !.dns_mode = m]
    /\ Goto("load_state")
    /\ steps' = <<>>
    /\ startPhase' = ""
    /\ runs' = runs + 1
    /\ wrote' = FALSE
    /\ UNCHANGED <<state, Locals, worldVars, createCalls, pairVars, archVars>>

(* load_state: dies without a file; json.loads raises on an unparseable one. *)
LoadState ==
    /\ pc = "load_state"
    /\ IF disk = NoFile THEN Die /\ UNCHANGED startPhase
       ELSE IF disk = Torn THEN Halt("error") /\ UNCHANGED startPhase
       ELSE /\ state' = disk
            /\ cfg' = [cfg EXCEPT !.current_phase = disk.phase,
                                  !.dns_mode = IF cfg.dns_mode = "" THEN disk.dns_mode ELSE @,
                                  !.stackscript_id = disk.stack_id]
            /\ startPhase' = disk.phase
            /\ Goto(IF cfg.destroy THEN "destroy_auth" ELSE "resume_auth")
            /\ UNCHANGED Locals
    /\ wrote' = FALSE
    /\ UNCHANGED <<worldVars, createCalls, steps, runs, pairVars, archVars>>

ResumePointFromStart(phase) == "load_ssh_pubkey"
(* The step resume_mode starts with for a loaded phase. *)
ResumePoint(phase) ==
    CASE phase \in {"planning", "planned", "provisioning"} -> "load_ssh_pubkey"
      [] phase \in {"provisioned", "dns_configuring"} -> "configure_dns"
      [] phase \in {"dns_configured", "config_generating", "config_generated"} -> "write_config_files"
      [] phase = "deploying" -> "run_kamal_deploy"
      [] phase = "deployed" -> "post_deploy_checks"
      [] OTHER -> "unrecognized"

(* ensure_linode_auth, then the branch on the phase. *)
ResumeMode ==
    /\ pc = "resume_auth"
    /\ \E ok \in CallOutcomes :
         IF ~ok THEN Die
         ELSE IF ResumePoint(cfg.current_phase) = "unrecognized" THEN Halt("ok")
         ELSE /\ Goto(ResumePoint(cfg.current_phase))
              /\ cfg' = IF cfg.current_phase = "deploying"
                          THEN [cfg EXCEPT !.run_deploy = "yes"] ELSE cfg
              /\ UNCHANGED <<state, Locals>>
    /\ wrote' = FALSE
    /\ UNCHANGED <<worldVars, Ghosts, pairVars, archVars>>

(* load_ssh_pubkey dies on a missing or invalid key. *)
LoadSshPubkey ==
    /\ pc = "load_ssh_pubkey"
    /\ Enter("load_ssh_pubkey")
    /\ \E ok \in CallOutcomes :
         IF ok THEN Goto("ensure_stackscript") /\ UNCHANGED <<state, cfg, Locals>>
               ELSE Die
    /\ wrote' = FALSE
    /\ UNCHANGED <<worldVars, createCalls, startPhase, runs, pairVars, archVars>>

----------------------------------------------------------------------------
(* Destroy Controller (flow_ops.py 57-66, destroy_ops.py). *)

(* The destroy flag sets: the run flags plus --confirm-destroy and          *)
(* --delete-stackscript.                                                    *)
DestroyFlagSets ==
    {[flags |-> Interactive, confirm |-> FALSE, delete_stackscript |-> FALSE],
     [flags |-> Unattended, confirm |-> TRUE, delete_stackscript |-> TRUE],
     [flags |-> Bare, confirm |-> TRUE, delete_stackscript |-> FALSE],
     [flags |-> Unattended, confirm |-> FALSE, delete_stackscript |-> FALSE],
     [flags |-> DryRun, confirm |-> FALSE, delete_stackscript |-> FALSE]}

(* The process is started with --destroy and --dns-mode m ("": not given). *)
RunDestroyWithMode(d, m) ==
    /\ pc = "idle"
    /\ runs < MaxRuns
    /\ cfg' = [NoCfg EXCEPT !.dry_run = d.flags.dry_run,
                            !.dns_mode = m,
                            !.non_interactive = d.flags.non_interactive,
                            !.cloudflare_api_token = d.flags.cloudflare_api_token,
                            !.destroy = TRUE,
                            !.confirm_destroy = d.confirm,
                            !.delete_stackscript = d.delete_stackscript]
    /\ Goto("load_state")
    /\ steps' = <<>>
    /\ startPhase' = ""
    /\ runs' = runs + 1
    /\ wrote' = FALSE
    /\ UNCHANGED <<state, Locals, worldVars, createCalls, pairVars, archVars>>

(* The process is started with --destroy. *)
RunDestroy(d) == RunDestroyWithMode(d, "")

(* destroy_mode: ensure_linode_auth. *)
DestroyAuth ==
    /\ pc = "destroy_auth"
    /\ \E ok \in CallOutcomes :
         IF ok THEN Goto("confirm_destroy_flow") /\ UNCHANGED <<state, cfg, Locals>>
               ELSE Die
    /\ wrote' = FALSE
    /\ UNCHANGED <<worldVars, Ghosts, pairVars, archVars>>

DestroyConfirmedAlways(c, typed) == TRUE
(* confirm_destroy_flow returns (rather than dies): dry-run, the flag, or   *)
(* DESTROY typed at the prompt of an interactive run.                       *)
DestroyConfirmed(c, typed) ==
    c.dry_run \/ c.confirm_destroy \/ (~c.non_interactive /\ typed)

ConfirmDestroyFlow ==
    /\ pc = "confirm_destroy_flow"
    /\ \E typed \in Answers :
         IF DestroyConfirmed(cfg, typed)
           THEN Goto("delete_dns_for_mode") /\ UNCHANGED <<state, cfg, Locals>>
           ELSE Die
    /\ wrote' = FALSE
    /\ UNCHANGED <<worldVars, Ghosts, pairVars, archVars>>

(* The provider has no record in the zone (as when it has no such zone). *)
ZoneIsEmpty(z, mode) == \A c \in Codes : z[mode][c] = NoZoneRec

(* delete_dns_for_mode, and the head of the mode's delete function: the     *)
(* zone lookup (linode: also in dry-run, and a zone that is not listed is   *)
(* warned about and skipped; cloudflare: token and zone unless dry-run).    *)
(* Manual and unknown modes skip DNS deletion.                              *)
DeleteDnsForMode ==
    /\ pc = "delete_dns_for_mode"
    /\ IF cfg.dns_mode \notin DnsProviders
         THEN i' = 1 /\ Goto("delete_linodes")
              /\ UNCHANGED <<state, cfg, created, pending, polls, ret>>
         ELSE \E ok \in CallOutcomes, typed \in Answers, listed \in CallOutcomes :
                LET skip == cfg.dns_mode = "cloudflare-dns" /\ cfg.dry_run
                    token == cfg.cloudflare_api_token \/ (~cfg.non_interactive /\ typed)
                    found == IF cfg.dns_mode = "cloudflare-dns" THEN token /\ ok ELSE ok
                    nozone == cfg.dns_mode = "linode-dns" /\ ~listed
                              /\ ZoneIsEmpty(zone, "linode-dns")
                IN IF skip \/ found
                     THEN /\ i' = 1
                          /\ Goto(IF nozone THEN "delete_linodes" ELSE "delete_dns_record")
                          /\ UNCHANGED <<state, cfg, created, pending, polls, ret>>
                     ELSE Die
    /\ wrote' = FALSE
    /\ UNCHANGED <<worldVars, Ghosts, pairVars, archVars>>

TrackedForNoMode(tracked, mode) == FALSE
(* The loops delete a record only if the state tracks it for the provider   *)
(* of the run's DNS mode and with a record id.                              *)
TrackedForMode(tracked, mode) == tracked.provider = mode /\ tracked.record_id # 0

(* The provider still has the record with this id for the name of code. *)
RecordExists(z, mode, c, rid) == z[mode][c].id = rid

AfterDnsDeleteArchives == i' = 0 /\ Goto("archive_state")
(* After the delete of CodeSeq[i]'s record: the next code, or the nodes. *)
AfterDnsDelete ==
    IF i < Len(CodeSeq) THEN i' = i + 1 /\ Goto("delete_dns_record")
                        ELSE i' = 1 /\ Goto("delete_linodes")

(* One iteration of delete_linode_dns_records / delete_cloudflare_dns_records: *)
(* records-delete through linode_cmd (run, check=True) or cloudflare_api,      *)
(* both of which die when the call fails, as it does for a record that is gone. *)
DeleteDnsRecord ==
    /\ pc = "delete_dns_record"
    /\ LET c == CodeSeq[i]
           tracked == state.records[c] IN
       IF ~TrackedForMode(tracked, cfg.dns_mode) \/ cfg.dry_run
         THEN AfterDnsDelete /\ UNCHANGED <<state, cfg, created, pending, polls, ret, zone>>
         ELSE \E ok \in CallOutcomes :
                IF ok /\ RecordExists(zone, cfg.dns_mode, c, tracked.record_id)
                  THEN /\ zone' = [zone EXCEPT ![cfg.dns_mode][c] = NoZoneRec]
                       /\ AfterDnsDelete
                       /\ UNCHANGED <<state, cfg, created, pending, polls, ret>>
                  ELSE Die /\ UNCHANGED zone
    /\ wrote' = FALSE
    /\ UNCHANGED <<disk, pwfile, linodes, addressed, nextId, scripts, nextRec,
                   Ghosts, pairVars, archVars>>

(* lookup_linode_id_by_label: the first node the provider lists with the    *)
(* label of code, 0 if none.                                                *)
LookupLinodeIdByLabel(c) ==
    LET ids == {l.id : l \in {x \in linodes : x.code = c}} IN
    IF ids = {} THEN 0 ELSE CHOOSE x \in ids : \A y \in ids : x <= y

LinodesAfterDeleteKeeps(ls, id, deleted) == ls
(* The provider's nodes after `linodes delete id`: without the node when    *)
(* the call succeeded, unchanged when it failed.                            *)
LinodesAfterDelete(ls, id, deleted) == IF deleted THEN {l \in ls : l.id # id} ELSE ls

(* One iteration of delete_linodes: a failed delete is only warned about. *)
DeleteLinodes ==
    /\ pc = "delete_linodes"
    /\ \E found \in CallOutcomes, deleted \in CallOutcomes :
         LET c == CodeSeq[i]
             tracked == NodeLinodeId(state, c)
             id == IF tracked # 0 THEN tracked ELSE LookupLinodeIdByLabel(c) IN
         IF tracked = 0 /\ ~found
           THEN Die /\ UNCHANGED linodes
           ELSE /\ linodes' = IF id # 0 /\ ~cfg.dry_run
                                THEN LinodesAfterDelete(linodes, id, deleted) ELSE linodes
                /\ IF i < Len(CodeSeq)
                     THEN i' = i + 1 /\ Goto("delete_linodes")
                     ELSE i' = 0 /\ Goto("delete_local_scaffold_repo")
                /\ UNCHANGED <<state, cfg, created, pending, polls, ret>>
    /\ wrote' = FALSE
    /\ UNCHANGED <<disk, pwfile, addressed, nextId, scripts, zone, nextRec,
                   Ghosts, pairVars, archives, pwarchives, scaffold>>

(* delete_local_scaffold_repo: rmtree of the wizard-created repo. *)
DeleteLocalScaffoldRepo ==
    /\ pc = "delete_local_scaffold_repo"
    /\ scaffold' = IF cfg.dry_run THEN scaffold ELSE FALSE
    /\ Goto("maybe_delete_stackscript_flow")
    /\ wrote' = FALSE
    /\ UNCHANGED <<state, cfg, Locals, worldVars, Ghosts, pairVars, archives, pwarchives>>

(* maybe_delete_stackscript_flow: with the flag, or on "y" at the prompt of *)
(* an interactive run, stackscripts delete through linode_cmd.              *)
MaybeDeleteStackscriptFlow ==
    /\ pc = "maybe_delete_stackscript_flow"
    /\ \E ok \in CallOutcomes, yes \in Answers :
         LET sid == cfg.stackscript_id IN
         IF sid # 0 /\ ~cfg.dry_run
            /\ (cfg.delete_stackscript \/ (~cfg.non_interactive /\ yes))
           THEN IF ok /\ sid \in scripts
                  THEN /\ scripts' = scripts \ {sid}
                       /\ Goto("archive_state")
                       /\ UNCHANGED <<state, cfg, Locals>>
                  ELSE Die /\ UNCHANGED scripts
           ELSE Goto("archive_state") /\ UNCHANGED <<state, cfg, Locals, scripts>>
    /\ wrote' = FALSE
    /\ UNCHANGED <<disk, pwfile, linodes, addressed, nextId, zone, nextRec,
                   Ghosts, pairVars, archVars>>

(* The stamp of archive_state's file names: UTC time to the second; the     *)
(* processes of a behaviour run at different seconds.                       *)
Stamp == runs

RenameDrops(files, stamp, d) == files
(* Path.rename to the stamped name (an existing file of that name is replaced). *)
RenameTo(files, stamp, d) ==
    {a \in files : a.stamp # stamp} \cup {[stamp |-> stamp, doc |-> d]}

(* archive_state: the state document is renamed (nothing in dry-run). *)
ArchiveState ==
    /\ pc = "archive_state"
    /\ IF cfg.dry_run
         THEN Halt("ok") /\ UNCHANGED <<disk, archives>>
         ELSE /\ archives' = RenameTo(archives, Stamp, disk)
              /\ disk' = NoFile
              /\ Goto("archive_passwords")
              /\ UNCHANGED <<state, cfg, Locals>>
    /\ wrote' = FALSE
    /\ UNCHANGED <<pwfile, Provider, Ghosts, pairVars, pwarchives, scaffold>>

(* archive_state: the password document, if it exists, is renamed. *)
ArchivePasswords ==
    /\ pc = "archive_passwords"
    /\ pwarchives' = IF pwfile # NoPasswords
                       THEN RenameTo(pwarchives, Stamp, pwfile) ELSE pwarchives
    /\ pwfile' = NoPasswords
    /\ Halt("ok")
    /\ wrote' = FALSE
    /\ UNCHANGED <<disk, Provider, Ghosts, pairVars, archives, scaffold>>

----------------------------------------------------------------------------
(* Process termination from outside. *)

(* The process is killed between two steps. *)
Kill ==
    /\ pc # "idle"
    /\ Halt("killed")
    /\ wrote' = FALSE
    /\ UNCHANGED <<worldVars, Ghosts, pairVars, archVars>>

(* The positions whose step calls save_state. *)
SavingPcs == {"init_state", "save_stackscript_id", "provision_nodes", "update_node",
              "batch_update_node", "provision_done", "configure_dns", "set_dns_status",
              "set_dns_record", "dns_status_configured", "dns_configured",
              "write_config_files", "config_repo", "run_kamal_deploy", "deploying",
              "deployed"}

(* The process is killed inside save_state's write_text: the file was      *)
(* truncated on open and holds none or a part of the new document.         *)
KillInSaveState ==
    /\ pc \in SavingPcs
    /\ Saves
    /\ disk' = Torn
    /\ Halt("killed")
    /\ wrote' = FALSE
    /\ UNCHANGED <<pwfile, Provider, Ghosts, pairVars, archVars>>

(* The process is killed inside save_password_state's write_text: the file *)
(* was truncated on open and holds none or a part of the new document.      *)
KillInSavePasswords ==
    /\ pc = "record_node_passwords"
    /\ pwfile' = TornPasswords
    /\ Halt("killed")
    /\ wrote' = FALSE
    /\ UNCHANGED <<disk, Provider, Ghosts, pairVars, archVars>>

----------------------------------------------------------------------------

Step ==
    \/ PromptInputs \/ ClearPasswordState \/ InitState
    \/ EnsureStackscript \/ SaveStackscriptId
    \/ ProvisionNodes \/ CreateNode \/ CreateNodeUpdate \/ RecordNodePasswords
    \/ WaitForLinodeBatchPoll \/ WaitForLinodeBatchUpdate \/ ProvisionDone
    \/ ConfigureDns \/ SetDnsInProgress \/ EnsureDnsZone \/ EnsureDnsRecord
    \/ EnsureDnsRecordSave \/ ShowManualDnsInstructions \/ VerifyDnsRecords
    \/ SetDnsConfigured \/ DnsConfigured
    \/ WriteConfigFiles \/ ConfigRepo \/ ConfigWrite
    \/ RunKamalDeploy \/ Deploying \/ Kamal \/ Deployed \/ PostDeployChecks
    \/ LoadState \/ ResumeMode \/ LoadSshPubkey

(* The external services recover while no process runs: from then on every *)
(* call succeeds, every node has its address at the next poll, every name   *)
(* resolves, and the operator answers yes.                                  *)
HealthyStub == [FreeStub EXCEPT !.fixed = TRUE]

Heal ==
    /\ pc = "idle"
    /\ ~stub.fixed
    /\ stub' = HealthyStub
    /\ UNCHANGED <<procVars, worldVars, ghostVars, leg, ref, archVars>>

Next ==
    \/ \E f \in FlagSets, m \in DnsModes : RunMain(f, m)
    \/ \E f \in FlagSets, m \in ResumeDnsArgs : RunResume(f, m)
    \/ Step
    \/ ShowLocalBootstrapSteps
    \/ Kill
    \/ KillInSaveState
    \/ Heal

Spec == Init /\ [][Next]_vars

----------------------------------------------------------------------------
(* The command line (upright-linode-setup.py main, cli.py parse_config):    *)
(* every way a process ends, with every external service answering.         *)

(* parse_config raises ValueError (--resume with --destroy, a bad           *)
(* --deploy-mode, --provision-mode or --ssh-port): main returns before the  *)
(* application object exists.                                               *)
RunInvalid ==
    /\ pc = "idle"
    /\ runs < MaxRuns
    /\ outcome' = "usage"
    /\ runs' = runs + 1
    /\ steps' = <<>>
    /\ startPhase' = ""
    /\ wrote' = FALSE
    /\ UNCHANGED <<state, cfg, pc, Locals, worldVars, createCalls, pairVars, archVars>>

ExitCodeOfDieOnly(o) == IF o = "die" THEN 1 ELSE IF o = "usage" THEN 2 ELSE 0
(* The exit status of the process for the way it ended: main's return       *)
(* value, 1 with a traceback for an exception main does not catch, and      *)
(* 128 + 9 as the status of a process ended by SIGKILL.                     *)
ExitCode(o) ==
    CASE o = "ok" -> 0
      [] o = "die" -> 1
      [] o = "error" -> 1
      [] o = "usage" -> 2
      [] OTHER -> 137

InitCli ==
    /\ disk = NoFile
    /\ pwfile = NoPasswords
    /\ state = None
    /\ cfg = NoCfg
    /\ pc = "idle"
    /\ i = 0
    /\ created = NoCreated
    /\ pending = {}
    /\ polls = 0
    /\ ret = 0
    /\ outcome = "none"
    /\ linodes = {}
    /\ addressed = {}
    /\ nextId = 1
    /\ scripts = {}
    /\ zone = [p \in DnsProviders |-> [c \in Codes |-> NoZoneRec]]
    /\ nextRec = 1
    /\ createCalls = [c \in Codes |-> 0]
    /\ steps = <<>>
    /\ startPhase = ""
    /\ wrote = FALSE
    /\ runs = 0
    /\ stub = HealthyStub
    /\ leg = "main"
    /\ ref = None
    /\ archives = {}
    /\ pwarchives = {}
    /\ scaffold = FALSE

NextCli ==
    \/ \E f \in FlagSets, m \in DnsModes : RunMain(f, m)
    \/ \E f \in FlagSets, m \in ResumeDnsArgs : RunResume(f, m)
    \/ \E d \in DestroyFlagSets : RunDestroy(d)
    \/ RunInvalid
    \/ Step
    \/ DestroyAuth
    \/ ConfirmDestroyFlow
    \/ DeleteDnsForMode
    \/ DeleteDnsRecord
    \/ DeleteLinodes
    \/ DeleteLocalScaffoldRepo
    \/ MaybeDeleteStackscriptFlow
    \/ ArchiveState
    \/ ArchivePasswords
    \/ Kill
    \/ KillInSaveState

SpecCli == InitCli /\ [][NextCli]_vars

(* The same runs, where a kill may also fall inside the write of the        *)
(* password document.                                                       *)
NextTorn == Next \/ KillInSavePasswords

SpecTorn == Init /\ [][NextTorn]_vars

----------------------------------------------------------------------------
(* The paired run: under one fixed stub of external responses, first a     *)
(* fresh run that is never interrupted (leg "ref"), then, from the same    *)
(* initial world, a fresh run that is killed right after document writes   *)
(* and resumed with the same flags (leg "test").                           *)

PairStubs ==
    {s \in [fixed : {TRUE}, addr : [Codes -> BOOLEAN], dns : BOOLEAN, deploy : BOOLEAN,
            answer : {TRUE}, flags : FlagSets \ {DryRun}, mode : DnsModes] :
        Cardinality({c \in Codes : ~s.addr[c]}) <= MaxUnaddressed}

(* What is compared of a final state document. *)
Result(d) ==
    IF IsDoc(d)
      THEN [phase |-> d.phase,
            ids |-> [c \in Codes |-> d.nodes[c].linode_id],
            ips |-> [c \in Codes |-> d.nodes[c].ipv4],
            records |-> d.records]
      ELSE [phase |-> d.kind]

InitPair ==
    /\ disk = NoFile
    /\ pwfile = NoPasswords
    /\ state = None
    /\ cfg = NoCfg
    /\ pc = "idle"
    /\ i = 0
    /\ created = NoCreated
    /\ pending = {}
    /\ polls = 0
    /\ ret = 0
    /\ outcome = "none"
    /\ linodes = {}
    /\ addressed = {}
    /\ nextId = 1
    /\ scripts = {}
    /\ zone = [p \in DnsProviders |-> [c \in Codes |-> NoZoneRec]]
    /\ nextRec = 1
    /\ createCalls = [c \in Codes |-> 0]
    /\ steps = <<>>
    /\ startPhase = ""
    /\ wrote = FALSE
    /\ runs = 0
    /\ stub \in PairStubs
    /\ leg = "ref"
    /\ ref = None
    /\ archives = {}
    /\ pwarchives = {}
    /\ scaffold = FALSE

(* The reference run has ended: its result is kept and the world is set back. *)
StartTest ==
    /\ leg = "ref"
    /\ pc = "idle"
    /\ outcome \in {"ok", "die"}
    /\ ref' = Result(disk)
    /\ leg' = "test"
    /\ disk' = NoFile
    /\ pwfile' = NoPasswords
    /\ linodes' = {}
    /\ addressed' = {}
    /\ nextId' = 1
    /\ scripts' = {}
    /\ zone' = [p \in DnsProviders |-> [c \in Codes |-> NoZoneRec]]
    /\ nextRec' = 1
    /\ createCalls' = [c \in Codes |-> 0]
    /\ steps' = <<>>
    /\ startPhase' = ""
    /\ wrote' = FALSE
    /\ runs' = 0
    /\ outcome' = "none"
    /\ UNCHANGED <<state, cfg, pc, Locals, stub, archVars>>

(* The test leg's process is killed right after a step that wrote a document. *)
KillAfterWrite ==
    /\ leg = "test"
    /\ pc # "idle"
    /\ wrote
    /\ runs < MaxRuns
    /\ Halt("killed")
    /\ wrote' = FALSE
    /\ UNCHANGED <<worldVars, Ghosts, pairVars, archVars>>

NextPair ==
    \/ runs = 0 /\ RunMain(stub.flags, stub.mode)
    \/ outcome = "killed" /\ RunResume(stub.flags, "")
    \/ Step
    \/ KillAfterWrite
    \/ StartTest

SpecPair == InitPair /\ [][NextPair]_vars

----------------------------------------------------------------------------
(* Destroy runs: the world is one a run left behind (n nodes created, all  *)
(* addressed when n is all four, r DNS records ensured), and at most        *)
(* MaxRuns destroy processes run over it, any of which may be killed.       *)

CodeIdx(c) == CHOOSE k \in 1..Len(CodeSeq) : CodeSeq[k] = c

(* The phase a run is in with n nodes created and r records ensured. *)
WorldPhase(n, r, done) ==
    IF n < Len(CodeSeq) THEN "provisioning"
    ELSE IF done THEN "deployed"
    ELSE IF r = 0 THEN "provisioned"
    ELSE "dns_configuring"

(* The state document of such a run. *)
WorldDoc(m, n, r, done) ==
    [kind |-> "doc", phase |-> WorldPhase(n, r, done), stack_id |-> 1, dns_mode |-> m,
     dns_status |-> IF n = Len(CodeSeq) /\ done THEN "configured"
                    ELSE IF r = 0 THEN "pending" ELSE "in_progress",
     records |-> [c \in Codes |->
                    IF CodeIdx(c) <= r
                      THEN [provider |-> m, record_id |-> CodeIdx(c), target |-> CodeIdx(c)]
                      ELSE NoRecord],
     nodes |-> [c \in Codes |->
                    IF CodeIdx(c) > n THEN [linode_id |-> 0, ipv4 |-> 0, status |-> "planned"]
                    ELSE IF n < Len(CodeSeq)
                      THEN [linode_id |-> CodeIdx(c), ipv4 |-> 0, status |-> "provisioning"]
                      ELSE [linode_id |-> CodeIdx(c), ipv4 |-> CodeIdx(c), status |-> "running"]]]

(* The (mode, nodes, records, deployed) shapes of the worlds. *)
WorldShapes ==
    {w \in [mode : DnsModes, n : 0..Len(CodeSeq), r : 0..Len(CodeSeq), done : BOOLEAN] :
        /\ (w.r > 0 => w.n = Len(CodeSeq) /\ w.mode \in DnsProviders)
        /\ (w.done => w.n = Len(CodeSeq)
                      /\ w.r = IF w.mode \in DnsProviders THEN Len(CodeSeq) ELSE 0)}

(* The operator who answers no at every prompt. *)
DecliningStub == [HealthyStub EXCEPT !.answer = FALSE]

InitDestroy ==
    \E w \in WorldShapes :
        /\ disk = WorldDoc(w.mode, w.n, w.r, w.done)
        /\ pwfile = [c \in Codes |-> IF CodeIdx(c) <= w.n THEN CodeIdx(c) ELSE 0]
        /\ state = None
        /\ cfg = NoCfg
        /\ pc = "idle"
        /\ i = 0
        /\ created = NoCreated
        /\ pending = {}
        /\ polls = 0
        /\ ret = 0
        /\ outcome = "none"
        /\ linodes = {[id |-> k, code |-> CodeSeq[k]] : k \in 1..w.n}
        /\ addressed = IF w.n = Len(CodeSeq) THEN 1..w.n ELSE {}
        /\ nextId = w.n + 1
        /\ scripts = {1}
        /\ zone = [p \in DnsProviders |-> [c \in Codes |->
                     IF p = w.mode /\ CodeIdx(c) <= w.r
                       THEN [id |-> CodeIdx(c), target |-> CodeIdx(c)] ELSE NoZoneRec]]
        /\ nextRec = w.r + 1
        /\ createCalls = [c \in Codes |-> IF CodeIdx(c) <= w.n THEN 1 ELSE 0]
        /\ steps = <<>>
        /\ startPhase = ""
        /\ wrote = FALSE
        /\ runs = 0
        /\ stub \in {FreeStub, DecliningStub}
        /\ leg = "main"
        /\ ref = None
        /\ archives = {}
        /\ pwarchives = {}
        /\ scaffold \in BOOLEAN

NextDestroy ==
    \/ \E d \in DestroyFlagSets : RunDestroy(d)
    \/ LoadState
    \/ DestroyAuth
    \/ ConfirmDestroyFlow
    \/ DeleteDnsForMode
    \/ DeleteDnsRecord
    \/ DeleteLinodes
    \/ DeleteLocalScaffoldRepo
    \/ MaybeDeleteStackscriptFlow
    \/ ArchiveState
    \/ ArchivePasswords
    \/ Kill
    \/ Heal

SpecDestroy == InitDestroy /\ [][NextDestroy]_vars

(* Destroy with a --dns-mode override: all four nodes exist, r records are  *)
(* tracked and in the zone of the state's mode, and with `untracked` the    *)
(* zone holds one more record, for the next name, that the state does not   *)
(* track (manual mode: in the Linode zone).                                 *)
InitDestroyMode ==
    \E w \in {x \in WorldShapes : x.n = Len(CodeSeq)}, untracked \in BOOLEAN :
        LET q == IF w.mode \in DnsProviders THEN w.mode ELSE "linode-dns"
            inzone == IF untracked /\ w.r < Len(CodeSeq) THEN w.r + 1 ELSE w.r IN
        /\ disk = WorldDoc(w.mode, w.n, w.r, w.done)
        /\ pwfile = [c \in Codes |-> CodeIdx(c)]
        /\ state = None
        /\ cfg = NoCfg
        /\ pc = "idle"
        /\ i = 0
        /\ created = NoCreated
        /\ pending = {}
        /\ polls = 0
        /\ ret = 0
        /\ outcome = "none"
        /\ linodes = {[id |-> k, code |-> CodeSeq[k]] : k \in 1..w.n}
        /\ addressed = 1..w.n
        /\ nextId = w.n + 1
        /\ scripts = {1}
        /\ zone = [p \in DnsProviders |-> [c \in Codes |->
                     IF p = q /\ CodeIdx(c) <= inzone
                       THEN [id |-> CodeIdx(c), target |-> CodeIdx(c)] ELSE NoZoneRec]]
        /\ nextRec = inzone + 1
        /\ createCalls = [c \in Codes |-> 1]
        /\ steps = <<>>
        /\ startPhase = ""
        /\ wrote = FALSE
        /\ runs = 0
        /\ stub = FreeStub
        /\ leg = "main"
        /\ ref = None
        /\ archives = {}
        /\ pwarchives = {}
        /\ scaffold = FALSE

NextDestroyMode ==
    \/ \E d \in DestroyFlagSets, m \in DnsModes \cup {""} : RunDestroyWithMode(d, m)
    \/ LoadState
    \/ DestroyAuth
    \/ ConfirmDestroyFlow
    \/ DeleteDnsForMode
    \/ DeleteDnsRecord
    \/ DeleteLinodes
    \/ DeleteLocalScaffoldRepo
    \/ MaybeDeleteStackscriptFlow
    \/ ArchiveState
    \/ ArchivePasswords
    \/ Kill

SpecDestroyMode == InitDestroyMode /\ [][NextDestroyMode]_vars

----------------------------------------------------------------------------
(* DNS reconciliation over a zone that already has records: all four nodes  *)
(* are provisioned, and for up to MaxPreexisting names the zone holds an A  *)
(* record, pointing at the node's address or at another (stale) one,        *)
(* tracked in the state document or not (in manual mode the provider zones  *)
(* are empty). Resume runs configure DNS.                                   *)

PreexistingKinds == [stale : BOOLEAN, tracked : BOOLEAN]

(* The address a stale record points at: not the address of any node. *)
StaleTarget(c) == CodeIdx(c) + Len(CodeSeq)

ZoneWorlds ==
    {w \in [Codes -> PreexistingKinds \cup {NoZoneRec}] :
        Cardinality({c \in Codes : w[c] # NoZoneRec}) <= MaxPreexisting}

PreexistingRec(w, c) ==
    IF w[c] = NoZoneRec THEN NoZoneRec
    ELSE [id |-> CodeIdx(c), target |-> IF w[c].stale THEN StaleTarget(c) ELSE CodeIdx(c)]

InitDns ==
    \E m \in DnsModes, w \in ZoneWorlds :
        /\ m = "manual" => w = [c \in Codes |-> NoZoneRec]
        /\ disk = [WorldDoc(m, Len(CodeSeq), 0, FALSE) EXCEPT
                     !.records = [c \in Codes |->
                        IF w[c] # NoZoneRec /\ w[c].tracked
                          THEN [provider |-> m, record_id |-> PreexistingRec(w, c).id,
                                target |-> PreexistingRec(w, c).target]
                          ELSE NoRecord]]
        /\ pwfile = [c \in Codes |-> CodeIdx(c)]
        /\ state = None
        /\ cfg = NoCfg
        /\ pc = "idle"
        /\ i = 0
        /\ created = NoCreated
        /\ pending = {}
        /\ polls = 0
        /\ ret = 0
        /\ outcome = "none"
        /\ linodes = {[id |-> k, code |-> CodeSeq[k]] : k \in 1..Len(CodeSeq)}
        /\ addressed = 1..Len(CodeSeq)
        /\ nextId = Len(CodeSeq) + 1
        /\ scripts = {1}
        /\ zone = [p \in DnsProviders |-> [c \in Codes |->
                     IF p = m THEN PreexistingRec(w, c) ELSE NoZoneRec]]
        /\ nextRec = Len(CodeSeq) + 1
        /\ createCalls = [c \in Codes |-> 1]
        /\ steps = <<>>
        /\ startPhase = ""
        /\ wrote = FALSE
        /\ runs = 0
        /\ stub \in {FreeStub, HealthyStub}
        /\ leg = "main"
        /\ ref = None
        /\ archives = {}
        /\ pwarchives = {}
        /\ scaffold = FALSE

NextDns ==
    \/ \E f \in FlagSets \cup {DryUnattended}, m \in ResumeDnsArgs : RunResume(f, m)
    \/ LoadState
    \/ ResumeMode
    \/ ConfigureDns
    \/ SetDnsInProgress
    \/ EnsureDnsZone
    \/ EnsureDnsRecord
    \/ EnsureDnsRecordSave
    \/ ShowManualDnsInstructions
    \/ VerifyDnsRecords
    \/ SetDnsConfigured
    \/ DnsConfigured
    \/ WriteConfigFiles
    \/ ConfigRepo
    \/ ConfigWrite
    \/ RunKamalDeploy
    \/ ShowLocalBootstrapSteps
    \/ Deploying
    \/ Kamal
    \/ Deployed
    \/ PostDeployChecks
    \/ Kill

SpecDns == InitDns /\ [][NextDns]_vars

----------------------------------------------------------------------------
(* Resume over a state document whose phase is none of the ten: the world   *)
(* is one a run left behind, with the phase field edited or written by      *)
(* another version.                                                         *)

OddPhases == {"", "destroyed", "Deployed"}

InitOddPhase ==
    \E w \in WorldShapes, p \in OddPhases :
        /\ disk = [WorldDoc(w.mode, w.n, w.r, w.done) EXCEPT !.phase = p]
        /\ pwfile = [c \in Codes |-> IF CodeIdx(c) <= w.n THEN CodeIdx(c) ELSE 0]
        /\ state = None
        /\ cfg = NoCfg
        /\ pc = "idle"
        /\ i = 0
        /\ created = NoCreated
        /\ pending = {}
        /\ polls = 0
        /\ ret = 0
        /\ outcome = "none"
        /\ linodes = {[id |-> k, code |-> CodeSeq[k]] : k \in 1..w.n}
        /\ addressed = IF w.n = Len(CodeSeq) THEN 1..w.n ELSE {}
        /\ nextId = w.n + 1
        /\ scripts = {1}
        /\ zone = [q \in DnsProviders |-> [c \in Codes |->
                     IF q = w.mode /\ CodeIdx(c) <= w.r
                       THEN [id |-> CodeIdx(c), target |-> CodeIdx(c)] ELSE NoZoneRec]]
        /\ nextRec = w.r + 1
        /\ createCalls = [c \in Codes |-> IF CodeIdx(c) <= w.n THEN 1 ELSE 0]
        /\ steps = <<>>
        /\ startPhase = ""
        /\ wrote = FALSE
        /\ runs = 0
        /\ stub \in {FreeStub, HealthyStub}
        /\ leg = "main"
        /\ ref = None
        /\ archives = {}
        /\ pwarchives = {}
        /\ scaffold \in BOOLEAN

NextOddPhase ==
    \/ \E f \in FlagSets, m \in ResumeDnsArgs : RunResume(f, m)
    \/ LoadState
    \/ ResumeMode
    \/ Kill

SpecOddPhase == InitOddPhase /\ [][NextOddPhase]_vars

----------------------------------------------------------------------------
(* Properties. *)

IsPrefix(a, b) == Len(a) <= Len(b) /\ SubSeq(b, 1, Len(a)) = a

(* C1: after the provider's create call for a code has returned, no kill   *)
(* and resume leads to a second create call for that code: per state       *)
(* document at most one create call per code ever returns.                 *)
C1_NoSecondCreate == \A c \in Codes : createCalls[c] <= 1

(* C2: a create_node call for a code whose linode_id the state (in memory, *)
(* or the document a resumed run loaded) already records issues no         *)
(* provider create call and hands back the recorded id.                    *)
C2_RecordedIdSkipsCreate ==
    [][(pc = "create_node" /\ state.nodes[CodeSeq[i]].linode_id # 0)
         => /\ linodes' = linodes
            /\ nextId' = nextId
            /\ createCalls' = createCalls
            /\ pc' # "update_node"
            /\ (pc' # "idle" /\ ~cfg.dry_run
                  => created'[CodeSeq[i]].linode_id = state.nodes[CodeSeq[i]].linode_id)]_vars

C2_Witness ==
    /\ cfg.resume
    /\ pc = "create_node"
    /\ i = 2
    /\ createCalls["app"] = 1
    /\ created["app"].linode_id # 0
    /\ created["app"].linode_id = disk.nodes["app"].linode_id

(* The step sequence the claim gives for each loaded phase. *)
AllSteps == <<"load_ssh_pubkey", "ensure_stackscript", "provision_nodes", "configure_dns",
              "write_config_files", "run_kamal_deploy", "post_deploy_checks">>
ExpectedSteps(phase) ==
    CASE phase \in {"planning", "planned", "provisioning"} -> AllSteps
      [] phase \in {"provisioned", "dns_configuring"} -> SubSeq(AllSteps, 4, 7)
      [] phase \in {"dns_configured", "config_generating", "config_generated"} -> SubSeq(AllSteps, 5, 7)
      [] phase = "deploying" -> SubSeq(AllSteps, 6, 7)
      [] phase = "deployed" -> SubSeq(AllSteps, 7, 7)

(* C3: a resume that loaded a phase enters the steps of that phase's       *)
(* sequence in order and nothing else; when it completes it has entered    *)
(* all of them; from provisioned/dns_configuring it never is in            *)
(* create_node.                                                            *)
C3_ResumeStepSequence ==
    startPhase \in Phases =>
      /\ IsPrefix(steps, ExpectedSteps(startPhase))
      /\ (pc = "idle" /\ outcome = "ok" => steps = ExpectedSteps(startPhase))
      /\ (startPhase \in {"provisioned", "dns_configuring"}
            => pc \notin {"create_node", "update_node", "record_node_passwords"})

C3_Witness ==
    /\ pc = "idle"
    /\ outcome = "ok"
    /\ startPhase = "provisioned"
    /\ steps = <<"configure_dns", "write_config_files", "run_kamal_deploy", "post_deploy_checks">>

(* C4: under one fixed stub of external responses and the same flags, a    *)
(* run killed right after document writes and resumed ends with the same   *)
(* persisted phase, node ids, addresses and DNS records as the run that    *)
(* was not interrupted.                                                    *)
C4_SameResultAfterResume ==
    (leg = "test" /\ pc = "idle" /\ outcome \in {"ok", "die"}) => Result(disk) = ref

C4_Witness ==
    /\ leg = "test"
    /\ pc = "idle"
    /\ outcome = "ok"
    /\ runs = 2
    /\ startPhase = "provisioning"
    /\ ref.phase = "deployed"
    /\ Result(disk) = ref

(* C5: no write of the state document, other than init_state's new         *)
(* document, moves the persisted phase to an earlier position.             *)
C5_PhaseNeverMovesBack ==
    [][(IsDoc(disk) /\ IsDoc(disk') /\ pc # "init_state")
         => Rank(disk'.phase) >= Rank(disk.phase)]_vars

(* C6: whenever the create call for a code has returned, the password      *)
(* document holds that code's passwords.                                   *)
C6_PasswordsBeforeCreateAck == \A c \in Codes : createCalls[c] > 0 => pwfile[c] # 0

(* C7: when a poll round after the first starts, the state document holds  *)
(* the address observed so far for every node of the batch.                *)
C7_PollRoundsPersisted ==
    (pc = "wait_for_linode_batch" /\ polls >= 1 /\ IsDoc(disk))
      => \A c \in Codes : created[c].linode_id # 0 => disk.nodes[c].ipv4 = created[c].ipv4

(* The poll batch of all four nodes ended with exactly one node pending. *)
OneTimedOut ==
    /\ Cardinality(pending) = 1
    /\ polls >= PollBudget
    /\ \A c \in Codes : created[c].linode_id # 0

ThreePersisted(d) ==
    /\ IsDoc(d)
    /\ \A c \in Codes \ pending : created[c].ipv4 # 0 /\ d.nodes[c].ipv4 = created[c].ipv4

(* C8: when the batch ends with three addresses and one node timed out,    *)
(* the steps up to configure_dns never die; at the end of the batch's      *)
(* writes the three addresses are in the document, and the next step       *)
(* writes phase provisioned and enters configure_dns.                      *)
C8_PartialTimeoutProceeds ==
    [][(pc \in {"batch_update_node", "provision_done"} /\ OneTimedOut)
         => /\ outcome' \notin {"die", "error"}
            /\ (pc = "provision_done" => ThreePersisted(disk))
            /\ (pc = "provision_done" /\ pc' # "idle"
                  => pc' = "configure_dns" /\ disk'.phase = "provisioned"
                     /\ ThreePersisted(disk'))]_vars

C8_Witness ==
    /\ pc = "configure_dns"
    /\ OneTimedOut
    /\ disk.phase = "provisioned"
    /\ ThreePersisted(disk)
    /\ \E c \in pending : disk.nodes[c].ipv4 = 0

(* The flags of the process ask for nothing the DNS mode cannot do. *)
FlagsFitMode ==
    /\ ~(cfg.dns_mode = "manual" /\ cfg.non_interactive /\ ~cfg.manual_dns_confirmed)
    /\ ~(cfg.dns_mode = "cloudflare-dns" /\ cfg.non_interactive /\ ~cfg.cloudflare_api_token)

(* C9: once the external services respond successfully, a resume from the  *)
(* state an earlier run left (failed, timed out or killed) does not end    *)
(* before the persisted phase is dns_configured or later.                  *)
C9_ResumeRecovers ==
    [][(/\ stub.fixed /\ leg = "main"
        /\ cfg.resume /\ ~cfg.dry_run /\ FlagsFitMode
        /\ startPhase \in Phases
        /\ pc # "idle" /\ pc' = "idle" /\ outcome' \in {"ok", "die"})
         => (IsDoc(disk') /\ Rank(disk'.phase) >= Rank("dns_configured"))]_vars

(* C10: the state document on disk is never a truncated or partly written  *)
(* one.                                                                    *)
C10_SaveIsAtomic == disk # Torn

(* C11: while a non-dry run is between two steps (where its external calls *)
(* are made), the state document on disk equals self.state.                *)
C11_StateFlushedBeforeCalls ==
    (pc # "idle" /\ ~cfg.dry_run /\ IsDoc(state)) => disk = state

C11_Witness ==
    /\ pc = "create_node"
    /\ i = 2
    /\ ~cfg.dry_run
    /\ state.stack_id # 0
    /\ state.phase = "provisioning"
    /\ state.nodes["app"].linode_id # 0
    /\ disk = state

(* C12: no step other than init_state's new document changes a non-null    *)
(* linode_id, in the document or in self.state, to another value or to     *)
(* null.                                                                   *)
C12_LinodeIdAssignedOnce ==
    [][/\ ((IsDoc(disk) /\ IsDoc(disk') /\ pc # "init_state")
            => \A c \in Codes : disk.nodes[c].linode_id # 0
                  => disk'.nodes[c].linode_id = disk.nodes[c].linode_id)
       /\ ((IsDoc(state) /\ IsDoc(state') /\ pc \notin {"init_state", "load_state"})
            => \A c \in Codes : state.nodes[c].linode_id # 0
                  => state'.nodes[c].linode_id = state.nodes[c].linode_id)]_vars

C12_Witness ==
    /\ pc = "provision_done"
    /\ cfg.resume
    /\ startPhase = "provisioning"
    /\ createCalls = [c \in Codes |-> 1]
    /\ \A c \in Codes : disk.nodes[c].linode_id # 0 /\ disk.nodes[c].ipv4 # 0

(* C13: no step of a fresh run, a resume or a failed run takes a non-null  *)
(* node id, DNS record id or password entry out of the canonical files.    *)
C13_OnlyDestroyRemovesState ==
    [][(IsDoc(disk) /\ disk' # Torn
        /\ \E c \in Codes : disk.nodes[c].linode_id # 0 \/ disk.records[c].record_id # 0)
         => /\ IsDoc(disk')
            /\ \A c \in Codes :
                 /\ (disk.nodes[c].linode_id # 0
                      => disk'.nodes[c].linode_id = disk.nodes[c].linode_id)
                 /\ (disk.records[c].record_id # 0
                      => disk'.records[c].record_id = disk.records[c].record_id)
                 /\ (pwfile[c] # 0 => pwfile'[c] # 0)]_vars

ReconcilePcs == {"ensure_stackscript", "create_node", "dns_zone", "ensure_dns_record"}

(* C20: a step at a reconcile call never stays at the same call (no        *)
(* retry); when it ends the process, the state document is left as it was. *)
C20_FailFast ==
    [][(pc \in ReconcilePcs)
         => /\ ~(pc' = pc /\ i' = i)
            /\ (pc' = "idle" => disk' = disk)]_vars

C20_Witness ==
    /\ pc = "idle"
    /\ outcome = "die"
    /\ runs = 1
    /\ steps = <<"ensure_stackscript", "provision_nodes">>
    /\ disk.phase = "provisioning"
    /\ disk.stack_id # 0
    /\ disk.nodes["app"].linode_id # 0
    /\ disk.nodes["ord"].linode_id = 0

DestroyTargets == <<zone, linodes, scripts, scaffold, archives, pwarchives, disk, pwfile>>

(* C15: during destroy, a failed delete of a DNS record or of a tracked     *)
(* node does not end the run; it goes on to the remaining resources.        *)
C15_DeleteFailureOnlyWarns ==
    [][((pc = "delete_dns_record" \/ (pc = "delete_linodes" /\ NodeLinodeId(state, CodeSeq[i]) # 0))
        /\ ~cfg.dry_run)
         => outcome' # "die"]_vars

(* C16: a confirmed, non-dry destroy run with a DNS token over a state      *)
(* document that an earlier destroy run left unarchived, with every service *)
(* answering, ends normally with the document archived.                     *)
C16_RerunCompletes ==
    [][(stub = HealthyStub /\ runs > 1 /\ cfg.destroy /\ ~cfg.dry_run /\ cfg.confirm_destroy
        /\ cfg.cloudflare_api_token /\ IsDoc(state) /\ pc # "idle" /\ pc' = "idle" /\ outcome' # "killed")
         => outcome' = "ok" /\ disk' = NoFile]_vars

(* C17: a destroy run changes the zone, the nodes, the boot scripts, the    *)
(* scaffold, the archives or the documents only if it is not a dry run and  *)
(* was confirmed by the flag or at the prompt of an interactive run; a      *)
(* non-interactive run without the flag ends at the confirmation.           *)
C17_NoDeleteUnconfirmed ==
    [][/\ ((cfg.destroy /\ pc # "idle" /\ DestroyTargets' # DestroyTargets)
            => /\ ~cfg.dry_run
               /\ cfg.confirm_destroy \/ (~cfg.non_interactive /\ stub # DecliningStub))
       /\ ((pc = "confirm_destroy_flow" /\ ~cfg.dry_run /\ cfg.non_interactive
            /\ ~cfg.confirm_destroy)
            => pc' = "idle" /\ outcome' \in {"die", "killed"})]_vars

C17_Witness ==
    /\ pc = "archive_passwords"
    /\ ~cfg.confirm_destroy /\ ~cfg.non_interactive
    /\ linodes = {} /\ archives # {}
    /\ \E c \in Codes : state.nodes[c].linode_id # 0

(* C18: when a non-dry destroy run completes, no state document is at the   *)
(* canonical path, the one archive holds the document the run loaded, and   *)
(* the password document, if there was one, is in the password archive.     *)
C18_ArchivedOnCompletion ==
    [][(cfg.destroy /\ ~cfg.dry_run /\ pc # "idle" /\ pc' = "idle" /\ outcome' = "ok")
         => /\ disk' = NoFile
            /\ archives' = {[stamp |-> Stamp, doc |-> state]}
            /\ pwfile' = NoPasswords
            /\ (pwfile # NoPasswords => pwarchives' = {[stamp |-> Stamp, doc |-> pwfile]})
            /\ (pwfile = NoPasswords => pwarchives' = {})]_vars

C18_Witness ==
    /\ pc = "idle" /\ outcome = "ok"
    /\ disk = NoFile
    /\ Cardinality(archives) = 1
    /\ Cardinality(pwarchives) = 1
    /\ pwfile = NoPasswords

(* C21: a fresh non-dry, non-interactive run that lacks the manual-DNS      *)
(* confirmation (manual mode) or the Cloudflare token (cloudflare mode)     *)
(* writes no state document and creates no external resource.               *)
C21_ConfigErrorBeforeEffects ==
    (/\ runs = 1 /\ pc # "idle" /\ ~cfg.resume /\ ~cfg.destroy
     /\ ~cfg.dry_run /\ cfg.non_interactive
     /\ \/ cfg.dns_mode = "manual" /\ ~cfg.manual_dns_confirmed
        \/ cfg.dns_mode = "cloudflare-dns" /\ ~cfg.cloudflare_api_token)
      => disk = NoFile /\ linodes = {} /\ scripts = {}

(* A process in manual DNS mode, non-interactive, without the confirmation. *)
ManualUnconfirmed ==
    pc # "idle" /\ cfg.dns_mode = "manual" /\ cfg.non_interactive /\ ~cfg.manual_dns_confirmed

(* The step neither starts DNS verification (verify_dns_records past its    *)
(* dry-run return) nor makes the phase dns_configured.                      *)
StaysBeforeVerification ==
    /\ ~(pc' = "verify_dns_records" /\ ~cfg.dry_run)
    /\ ((IsDoc(state) /\ IsDoc(state') /\ state.phase # "dns_configured")
          => state'.phase # "dns_configured")
    /\ ((IsDoc(disk) /\ IsDoc(disk') /\ disk.phase # "dns_configured")
          => disk'.phase # "dns_configured")

(* C22 as stated: in manual mode, non-interactive and unconfirmed, no step  *)
(* starts DNS verification or makes the phase dns_configured.               *)
C22_ManualNeverProceeds ==
    [][ManualUnconfirmed => StaysBeforeVerification]_vars

(* C22 amended: the same for runs that are not dry runs. *)
C22_ManualNeedsConfirmation ==
    [][(ManualUnconfirmed /\ ~cfg.dry_run) => StaysBeforeVerification]_vars

C22_Witness ==
    /\ pc = "idle" /\ outcome = "die" /\ runs = 1
    /\ stub = HealthyStub
    /\ disk.dns_mode = "manual"
    /\ disk.phase = "dns_configuring" /\ disk.dns_status = "in_progress"

(* C23: when resume finds a phase that is none of the recognized ones (and  *)
(* the provider login works), the process ends at once with success, and    *)
(* the documents, the provider's resources and the archives are unchanged.  *)
C23_OddPhaseIsNonFatal ==
    [][(pc = "resume_auth" /\ cfg.current_phase \notin Phases /\ outcome' # "killed")
         => /\ pc' = "idle"
            /\ outcome' \in {"ok", "die"}
            /\ (stub.fixed => outcome' = "ok")
            /\ UNCHANGED <<worldVars, archVars, createCalls>>]_vars

C23_Witness ==
    /\ pc = "idle" /\ outcome = "ok" /\ runs = 1
    /\ IsDoc(disk) /\ disk.phase \notin Phases
    /\ linodes # {}

(* C24: the provisioning poll loop is entered and continued only with a     *)
(* node pending and with fewer than the budget of polls done; every tick    *)
(* that stays in the loop counts one more poll, and a tick that leaves the  *)
(* pending set empty or uses up the budget leaves the loop.                 *)
C24_PollLoopBounded ==
    [][/\ (pc = "wait_for_linode_batch" => pending # {} /\ polls < PollBudget)
       /\ ((pc = "wait_for_linode_batch" /\ pc' = "wait_for_linode_batch")
            => polls' = polls + 1 /\ polls' < PollBudget /\ pending' # {})
       /\ ((pc = "wait_for_linode_batch" /\ pc' = "batch_update_node")
            => pending' = {} \/ polls' = PollBudget)]_vars

C24_Witness ==
    /\ pc = "batch_update_node" /\ i = 1
    /\ pending # {}
    /\ polls = PollBudget

(* The password document holds an entry for code c. *)
HasEntry(f, c) == f # TornPasswords /\ f[c] # 0

(* C25: outside init_state's clearing and destroy's archiving, a password   *)
(* entry that is in the document stays in it, unchanged.                    *)
C25_PasswordEntriesKept ==
    [][(pc \notin {"clear_password_state", "archive_passwords"})
         => \A c \in Codes :
              HasEntry(pwfile, c) => HasEntry(pwfile', c) /\ pwfile'[c] = pwfile[c]]_vars

(* The step ends a process. *)
Ended == pc' = "idle" /\ (pc # "idle" \/ runs' # runs) /\ outcome' # "killed"

(* The last step of a flow: post-deploy checks, the dump of a state with an *)
(* unrecognized phase, the archival of destroy.                             *)
LastSteps == {"post_deploy_checks", "resume_auth", "archive_state", "archive_passwords"}

----------------------------------------------------------------------------
(* The nodes list of the run state (state_ops.py), as the list of dicts the *)
(* code keeps; the keyed record `nodes` above is this list read by code.    *)

MaxUpdates == 3     \* init_state and update_node calls in one behaviour (SpecNodeList)

(* init_state's list: one dict per code, in the order of the source. *)
NodeList ==
    [k \in 1..Len(CodeSeq) |->
        [code |-> CodeSeq[k], linode_id |-> 0, ipv4 |-> 0, status |-> "planned"]]

NodeCodes(ns) == [k \in 1..Len(ns) |-> ns[k].code]
HasNode(ns, c) == \E k \in 1..Len(ns) : ns[k].code = c
FirstWithCode(ns, c) ==
    CHOOSE k \in 1..Len(ns) : ns[k].code = c /\ \A j \in 1..(k - 1) : ns[j].code # c

UpdateNodeListAppends(ns, c, id, ip, st) ==
    IF HasNode(ns, c) THEN ns
    ELSE Append(ns, [code |-> c, linode_id |-> IF id # Nil THEN id[1] ELSE 0,
                     ipv4 |-> IF ip # Nil THEN ip[1] ELSE 0,
                     status |-> IF st # Nil THEN st[1] ELSE "planned"])
(* update_node: sets the given fields of the first node with the code and   *)
(* returns; a code no node has leaves the list as it is.                    *)
UpdateNodeList(ns, c, id, ip, st) ==
    IF ~HasNode(ns, c) THEN ns
    ELSE [ns EXCEPT ![FirstWithCode(ns, c)] =
            [code |-> @.code,
             linode_id |-> IF id # Nil THEN id[1] ELSE @.linode_id,
             ipv4 |-> IF ip # Nil THEN ip[1] ELSE @.ipv4,
             status |-> IF st # Nil THEN st[1] ELSE @.status]]

(* The arguments update_node is called with: create_node passes a code of   *)
(* the plan, _wait_for_linode_batch a key of `created`; "lon" is a code no  *)
(* node has.                                                                *)
CodeArgs == Codes \cup {"lon"}
IdArgs == {Nil, Some(1), Some(2)}
Ipv4Args == {Nil, Some(1)}
StatusArgs == {Nil, Some("provisioning"), Some("running")}

(* init_state with the list; saved unless dry-run. *)
ListInitState(dry) ==
    /\ pc = "idle"
    /\ Len(steps) < MaxUpdates
    /\ cfg' = [cfg EXCEPT !.dry_run = dry]
    /\ state' = [FreshState EXCEPT !.nodes = NodeList]
    /\ disk' = IF dry THEN disk ELSE state'
    /\ steps' = Append(steps, "init_state")
    /\ UNCHANGED <<pwfile, pc, Locals, outcome, linodes, addressed, nextId, scripts,
                   zone, nextRec, createCalls, startPhase, wrote, runs, pairVars, archVars>>

(* update_node with the list; save_state only when a node matched. *)
ListUpdateNode(c, id, ip, st) ==
    /\ IsDoc(state)
    /\ Len(steps) < MaxUpdates
    /\ state' = [state EXCEPT !.nodes = UpdateNodeList(@, c, id, ip, st)]
    /\ disk' = IF HasNode(state.nodes, c) /\ ~cfg.dry_run THEN state' ELSE disk
    /\ steps' = Append(steps, "update_node")
    /\ UNCHANGED <<pwfile, cfg, pc, Locals, outcome, linodes, addressed, nextId, scripts,
                   zone, nextRec, createCalls, startPhase, wrote, runs, pairVars, archVars>>

(* load_state of a later process: the list is read back from the file. *)
ListLoadState ==
    /\ IsDoc(disk)
    /\ state # disk
    /\ state' = disk
    /\ cfg' = [cfg EXCEPT !.dry_run = FALSE]
    /\ UNCHANGED <<disk, pwfile, pc, Locals, outcome, linodes, addressed, nextId, scripts,
                   zone, nextRec, createCalls, steps, startPhase, wrote, runs, pairVars,
                   archVars>>

NextNodeList ==
    \/ \E dry \in BOOLEAN : ListInitState(dry)
    \/ \E c \in CodeArgs, id \in IdArgs, ip \in Ipv4Args, st \in StatusArgs :
         ListUpdateNode(c, id, ip, st)
    \/ ListLoadState

SpecNodeList == Init /\ [][NextNodeList]_vars

(* C27: in every reachable state the run state, in memory and on disk,      *)
(* holds exactly four nodes whose codes are app, ord, iad and sea, each     *)
(* once and in that order; init_state builds that list and update_node      *)
(* never adds, removes or renames a node.                                   *)
C27_FourNodes ==
    /\ IsDoc(state) => NodeCodes(state.nodes) = CodeSeq
    /\ IsDoc(disk) => NodeCodes(disk.nodes) = CodeSeq

(* update_node has set the id and the address of one node and left another *)
(* as planned; the list was saved.                                         *)
C27_Witness ==
    /\ IsDoc(disk)
    /\ Len(steps) = MaxUpdates
    /\ \E k \in 1..Len(disk.nodes) : disk.nodes[k].linode_id # 0 /\ disk.nodes[k].ipv4 # 0
    /\ \E k \in 1..Len(disk.nodes) : disk.nodes[k].status = "planned"

----------------------------------------------------------------------------
(* C28 as stated: in every mode, dry-run included, the phase of the run     *)
(* state, in memory and on disk, is one of the ten enumerated phases.       *)
C28_PhaseEnumerated ==
    /\ IsDoc(state) => state.phase \in Phases
    /\ IsDoc(disk) => disk.phase \in Phases

(* C28 amended: the phase on disk is always one of the ten enumerated       *)
(* phases; the phase in memory is one of the ten, or "config_planned",      *)
(* which only a dry run sets (write_config_files) and never saves.          *)
C28_PhaseEnumeratedOnDisk ==
    /\ IsDoc(disk) => disk.phase \in Phases
    /\ IsDoc(state) =>
         \/ state.phase \in Phases
         \/ state.phase = "config_planned" /\ cfg.dry_run

(* A dry run has set "config_planned" in memory next to a saved document.   *)
C28_Witness ==
    /\ IsDoc(state) /\ state.phase = "config_planned"
    /\ IsDoc(disk) /\ disk.phase \in Phases

----------------------------------------------------------------------------
(* The positions of a destroy run after the state is loaded, in the order   *)
(* C29 gives them (with the scaffold removal the code has between the node  *)
(* deletions and the boot script deletion).                                 *)
DestroyOrder ==
    <<"confirm_destroy_flow", "delete_dns_for_mode", "delete_dns_record", "delete_linodes",
      "delete_local_scaffold_repo", "maybe_delete_stackscript_flow", "archive_state",
      "archive_passwords">>
DestroyPcs == {DestroyOrder[k] : k \in 1..Len(DestroyOrder)}
DestroyRank(l) == CHOOSE k \in 1..Len(DestroyOrder) : DestroyOrder[k] = l

(* C29: a destroy run goes through confirmation, the DNS record deletions,  *)
(* the node deletions, the boot script deletion and the archival in that    *)
(* order, one step to the next or again for the next code; each kind of     *)
(* resource changes only at its own step; the node loop is left, and so the *)
(* state archived, only after the deletion of all four nodes was attempted. *)
C29_DestroyOrder ==
    [][(cfg.destroy /\ pc \in DestroyPcs) =>
         /\ (pc' \in DestroyPcs =>
               \/ DestroyRank(pc') = DestroyRank(pc) + 1
               \/ pc' = pc /\ pc \in {"delete_dns_record", "delete_linodes"} /\ i' = i + 1
               \/ pc = "delete_dns_for_mode" /\ pc' = "delete_linodes"
                    /\ \/ cfg.dns_mode \notin DnsProviders
                       \/ cfg.dns_mode = "linode-dns" /\ ZoneIsEmpty(zone, "linode-dns"))
         /\ ((pc' \in DestroyPcs /\ pc' # pc /\ pc \in {"delete_dns_record", "delete_linodes"})
               => i = Len(CodeSeq))
         /\ ((pc' \in {"delete_dns_record", "delete_linodes"} /\ pc' # pc) => i' = 1)
         /\ (zone' # zone => pc = "delete_dns_record")
         /\ (linodes' # linodes => pc = "delete_linodes")
         /\ (scripts' # scripts => pc = "maybe_delete_stackscript_flow")
         /\ (<<archives, disk>>' # <<archives, disk>> => pc = "archive_state")
         /\ (<<pwarchives, pwfile>>' # <<pwarchives, pwfile>> => pc = "archive_passwords")]_vars

(* A confirmed run has deleted DNS records, nodes and the boot script and   *)
(* archived the state document.                                             *)
C29_Witness ==
    /\ pc = "archive_passwords"
    /\ \E c \in Codes : state.records[c].record_id # 0
    /\ \A q \in DnsProviders, c \in Codes : zone[q][c] = NoZoneRec
    /\ \E c \in Codes : state.nodes[c].linode_id # 0
    /\ linodes = {} /\ scripts = {}
    /\ disk = NoFile /\ archives # {} /\ pwfile # NoPasswords

----------------------------------------------------------------------------
(* No DNS record is deleted unless the state tracks it, by its id and for   *)
(* the provider it is deleted from; with the DNS mode manual none is.       *)
OnlyTrackedDeleted ==
    /\ \A q \in DnsProviders, c \in Codes :
         zone'[q][c] # zone[q][c] =>
           /\ zone'[q][c] = NoZoneRec
           /\ state.records[c].provider = q
           /\ state.records[c].record_id = zone[q][c].id
    /\ (cfg.dns_mode = "manual" => zone' = zone)

(* The destroy run completes, not a dry run. *)
DestroyCompletes == ~cfg.dry_run /\ pc # "idle" /\ pc' = "idle" /\ outcome' = "ok"

(* C30 as stated: when a destroy run completes, every record the state      *)
(* tracks with a record id is gone from the provider recorded for it; no    *)
(* record the state does not track is deleted, and none in manual mode.     *)
C30_TrackedRecordsDeleted ==
    [][(cfg.destroy /\ pc # "idle") =>
         /\ OnlyTrackedDeleted
         /\ (DestroyCompletes =>
               \A c \in Codes :
                 LET tracked == state.records[c] IN
                 (tracked.provider \in DnsProviders /\ tracked.record_id # 0)
                   => zone'[tracked.provider][c].id # tracked.record_id)]_vars

(* C30 amended: when a destroy run completes, every record the state tracks *)
(* with a record id for the provider of the run's DNS mode (the state's, or *)
(* the one given with --dns-mode) is gone from that provider; the records   *)
(* of any other provider are left as they are; no record the state does not *)
(* track is deleted, and none in manual mode.                               *)
C30_TrackedRecordsOfModeDeleted ==
    [][(cfg.destroy /\ pc # "idle") =>
         /\ OnlyTrackedDeleted
         /\ (\A q \in DnsProviders : q # cfg.dns_mode => zone'[q] = zone[q])
         /\ (DestroyCompletes =>
               \A c \in Codes :
                 LET tracked == state.records[c] IN
                 (tracked.provider = cfg.dns_mode /\ tracked.provider \in DnsProviders
                  /\ tracked.record_id # 0)
                   => zone'[tracked.provider][c].id # tracked.record_id)]_vars

(* A run in the state's mode has deleted the tracked records and is at the  *)
(* end of the archival; the one record the state does not track is left.    *)
C30_Witness ==
    /\ pc = "archive_passwords" /\ cfg.destroy
    /\ cfg.dns_mode \in DnsProviders
    /\ \E c \in Codes : state.records[c].record_id # 0
    /\ \A c \in Codes : state.records[c].record_id # 0 => zone[cfg.dns_mode][c] = NoZoneRec
    /\ \E c \in Codes : state.records[c].record_id = 0 /\ zone[cfg.dns_mode][c] # NoZoneRec

----------------------------------------------------------------------------
(* Node labels (provision_ops.py 91, destroy_ops.py 154-176). A root domain *)
(* is a string, modelled as a sequence of the characters "a", "." and " ";  *)
(* --root-domain is taken as given, whatever non-empty string it is.        *)

MaxRootLen == 2     \* characters of a root domain (SpecLabel)

RootChars == {"a", ".", " "}
RootDomains == UNION {[1..n -> RootChars] : n \in 1..MaxRootLen}

(* str.replace('.', '-') *)
Dashed(r) == [k \in 1..Len(r) |-> IF r[k] = "." THEN "-" ELSE r[k]]

(* str.strip() *)
RECURSIVE LStrip(_)
LStrip(r) == IF r # <<>> /\ Head(r) = " " THEN LStrip(Tail(r)) ELSE r
RECURSIVE RStrip(_)
RStrip(r) == IF r # <<>> /\ r[Len(r)] = " " THEN RStrip(SubSeq(r, 1, Len(r) - 1)) ELSE r
Strip(r) == RStrip(LStrip(r))

(* create_node's label: f"upright-{code}-{root_domain.replace('.', '-')}". *)
NodeLabel(c, root) == <<"upright-", c, "-">> \o Dashed(root)

ExpectedLinodeLabelUndashed(c, root) ==
    IF Strip(root) = <<>> THEN <<>> ELSE <<"upright-", c, "-">> \o Strip(root)
(* expected_linode_label: the root domain is stripped first, and there is   *)
(* no label without one.                                                    *)
ExpectedLinodeLabel(c, root) ==
    IF Strip(root) = <<>> THEN <<>> ELSE <<"upright-", c, "-">> \o Dashed(Strip(root))

(* lookup_linode_id_by_label over the provider's nodes ns: the first node   *)
(* listed with the label, 0 if none or if there is no label.                *)
LookupByLabel(ns, label) ==
    LET ids == {l.id : l \in {x \in ns : x.label = label}} IN
    IF label = <<>> \/ ids = {} THEN 0 ELSE CHOOSE x \in ids : \A y \in ids : x <= y

(* The run was given the root domain r; the state document has no node id. *)
InitLabel ==
    \E r \in RootDomains :
        /\ cfg = [root_domain |-> r] @@ NoCfg
        /\ disk = NoFile /\ pwfile = NoPasswords /\ state = None
        /\ pc = "idle" /\ i = 0 /\ created = NoCreated /\ pending = {}
        /\ polls = 0 /\ ret = 0 /\ outcome = "none"
        /\ linodes = {} /\ addressed = {} /\ nextId = 1 /\ scripts = {}
        /\ zone = [p \in DnsProviders |-> [c \in Codes |-> NoZoneRec]]
        /\ nextRec = 1
        /\ createCalls = [c \in Codes |-> 0]
        /\ steps = <<>> /\ startPhase = "" /\ wrote = FALSE /\ runs = 0
        /\ stub = HealthyStub /\ leg = "main" /\ ref = None
        /\ archives = {} /\ pwarchives = {} /\ scaffold = FALSE

(* create_node's create call for code c returned and the process ended      *)
(* before update_node: the provider has the node, the state has no id.      *)
LabelCreateNode(c) ==
    /\ createCalls[c] = 0
    /\ nextId <= MaxLinodes
    /\ linodes' = linodes \cup
         {[id |-> nextId, code |-> c, label |-> NodeLabel(c, cfg.root_domain)]}
    /\ nextId' = nextId + 1
    /\ createCalls' = [createCalls EXCEPT ![c] = 1]
    /\ UNCHANGED <<procVars, disk, pwfile, addressed, scripts, zone, nextRec,
                   steps, startPhase, wrote, runs, pairVars, archVars>>

(* delete_linodes' iteration for code c, whose id the state does not have:  *)
(* the lookup by label, and the delete of the node it resolves to.          *)
LabelDeleteLinodes(c) ==
    /\ \A k \in 1..Len(steps) : steps[k] # c
    /\ LET id == LookupByLabel(linodes, ExpectedLinodeLabel(c, cfg.root_domain)) IN
       linodes' = {l \in linodes : l.id # id}
    /\ steps' = Append(steps, c)
    /\ UNCHANGED <<procVars, disk, pwfile, addressed, nextId, scripts, zone, nextRec,
                   createCalls, startPhase, wrote, runs, pairVars, archVars>>

NextLabel ==
    \/ \E c \in Codes : LabelCreateNode(c)
    \/ \E c \in Codes : LabelDeleteLinodes(c)

SpecLabel == InitLabel /\ [][NextLabel]_vars

(* The label of every node is the label destroy looks it up by, and the     *)
(* iteration of delete_linodes for a code leaves no node of that code.      *)
LabelsAgree ==
    /\ \A l \in linodes' : l.label = ExpectedLinodeLabel(l.code, cfg.root_domain)
    /\ \A c \in Codes :
         steps' = Append(steps, c) => ~\E l \in linodes' : l.code = c

----------------------------------------------------------------------------
(* C32: ensure_stackscript resolves the id of the script it found by label  *)
(* and leaves it in place, or creates one if there was none; no step of a   *)
(* fresh run or a resume deletes a script, and at most one script with the  *)
(* label exists.                                                            *)
C32_OneScriptEnsured ==
    [][/\ scripts \subseteq scripts'
       /\ Cardinality(scripts') <= 1
       /\ ((pc = "ensure_stackscript" /\ pc' = "save_stackscript_id" /\ ~cfg.dry_run)
            => /\ cfg'.stackscript_id \in scripts'
               /\ (scripts # {} => scripts' = scripts /\ cfg'.stackscript_id \in scripts))]_vars

(* The second run found the script of the first and kept its id. *)
C32_Witness ==
    /\ runs = MaxRuns
    /\ pc = "save_stackscript_id" /\ ~cfg.dry_run
    /\ IsDoc(disk) /\ disk.stack_id # 0
    /\ scripts = {disk.stack_id}
    /\ cfg.stackscript_id = disk.stack_id

----------------------------------------------------------------------------
(* C33: for each node the verifier makes at most DnsPollBudget polls; a     *)
(* poll goes on to the next node (or ends the verification) exactly when    *)
(* its answer is the node's expected, non-empty address, and otherwise      *)
(* counts as one more poll of the same node or ends the run.                *)
C33_VerifierPolls ==
    [][(pc = "verify_dns_records" /\ ~cfg.dry_run) =>
         LET expected == NodeIpv4(state, CodeSeq[i])
             succeeded == \/ pc' = "dns_status_configured"
                          \/ pc' = "verify_dns_records" /\ i' = i + 1
             again == pc' = "verify_dns_records" /\ i' = i IN
         /\ polls < DnsPollBudget
         /\ (succeeded => expected # 0 /\ ret' = expected /\ polls' = 0)
         /\ (again => (expected = 0 \/ ret' # expected) /\ polls' = polls + 1 /\ polls' < DnsPollBudget)
         /\ (succeeded \/ again \/ pc' = "idle")]_vars

(* The poll of the last node answered its address in an automated DNS mode. *)
C33_Witness ==
    /\ pc = "dns_status_configured" /\ ~cfg.dry_run
    /\ ret # 0 /\ ret = NodeIpv4(state, "sea")
    /\ cfg.dns_mode \in DnsProviders

----------------------------------------------------------------------------
(* The document on disk takes the phase p in this step. *)
PhaseBecomes(p) ==
    /\ IsDoc(disk') /\ disk'.phase = p
    /\ ~(IsDoc(disk) /\ disk.phase = p)

----------------------------------------------------------------------------
(* The flags of the run rule the deploy out: --skip-deploy, or              *)
(* --non-interactive without --run-deploy.                                  *)
DeployRuledOut ==
    cfg.deploy_flag = "no" \/ (cfg.non_interactive /\ cfg.deploy_flag # "yes")

(* The run goes on to set the phase deploying and to run the command. *)
DeployStarts == pc' = "deploying" /\ pc # "deploying"

(* Deploying is entered only with approval, and the command only from it. *)
DeployNeedsApproval ==
    /\ (DeployStarts => cfg.run_deploy = "yes" \/ ~cfg.non_interactive)
    /\ ((pc' = "kamal" /\ pc # "kamal") => pc = "deploying")
    /\ (PhaseBecomes("deploying") => pc = "deploying")

(* C35 as stated: the deploy is started only with approval, and never by a  *)
(* fresh run or a resume whose flags rule it out.                           *)
C35_NoDeployWithoutApproval ==
    [][DeployNeedsApproval /\ (DeployStarts => ~DeployRuledOut)]_vars

(* C35 amended: the deploy is started only with approval, and never by a    *)
(* fresh run or a resume whose flags rule it out, except by a resume from   *)
(* the phase deploying, which sets run_deploy to yes whatever the flags.    *)
C35_NoDeployWithoutApprovalOrResume ==
    [][/\ DeployNeedsApproval
       /\ (DeployStarts
            => \/ ~DeployRuledOut
               \/ cfg.resume /\ startPhase = "deploying" /\ cfg.run_deploy = "yes")]_vars

(* A non-interactive run given --run-deploy is at the deploy command. *)
C35_Witness ==
    /\ pc = "kamal"
    /\ ~DeployRuledOut
    /\ cfg.non_interactive /\ cfg.deploy_flag = "yes"
    /\ startPhase # "deploying"

----------------------------------------------------------------------------
(* The document d is in phase p or a later one. *)
PhaseAtLeast(d, p) == IsDoc(d) /\ d.phase \in Phases /\ Rank(d.phase) >= Rank(p)

(* C36: in every state document on disk whose phase is provisioned or       *)
(* later, each of the four nodes has a linode_id.                           *)
C36_ProvisionedHasIds ==
    PhaseAtLeast(disk, "provisioned") => \A c \in Codes : NodeLinodeId(disk, c) # 0

(* A run has saved the phase provisioned. *)
C36_Witness ==
    /\ IsDoc(disk) /\ disk.phase = "provisioned"
    /\ pc = "configure_dns"
    /\ \A c \in Codes : NodeLinodeId(disk, c) # 0

----------------------------------------------------------------------------
(* DNS reconciliation by a resume that may give --dns-mode: load_state      *)
(* keeps a mode given on the command line over the mode of the document     *)
(* (state_ops.py 148-152), and nothing writes the overriding mode back.     *)

(* The provisioned worlds whose zones hold no record yet. *)
InitDnsMode ==
    /\ InitDns
    /\ stub = FreeStub
    /\ \A p \in DnsProviders, c \in Codes : zone[p][c] = NoZoneRec

NextDnsMode ==
    \/ NextDns
    \/ \E f \in FlagSets, m \in DnsModes : RunResume(f, m)

SpecDnsMode == InitDnsMode /\ [][NextDnsMode]_vars

(* The document has the status configured and an address for every node. *)
DnsSettled(d) ==
    /\ d.dns_status = "configured"
    /\ \A c \in Codes : NodeIpv4(d, c) # 0

(* Every code has a tracked record whose target is the node's address. *)
RecordsTrackAddresses(d) ==
    \A c \in Codes : d.records[c].record_id # 0 /\ d.records[c].target = NodeIpv4(d, c)

(* C37: in every persisted state whose phase is dns_configured or later the *)
(* DNS status is configured, all four nodes have a non-empty ipv4, and when *)
(* the DNS mode of the document is one of the two automated modes each of   *)
(* the four codes has a tracked DNS record whose target equals that node's  *)
(* ipv4.                                                                    *)
C37_DnsConfiguredInvariant ==
    PhaseAtLeast(disk, "dns_configured") =>
        /\ DnsSettled(disk)
        /\ (disk.dns_mode \in DnsProviders => RecordsTrackAddresses(disk))

(* C37, amended: in every persisted state whose phase is dns_configured or  *)
(* later the DNS status is configured and all four nodes have a non-empty   *)
(* ipv4; the step that first saves dns_configured, when the run's DNS mode  *)
(* (the document's, or the --dns-mode of the resume) is automated, saves a  *)
(* document in which each of the four codes has a tracked record of that    *)
(* provider whose target equals the node's ipv4; and from then on no step   *)
(* changes the tracked records or the addresses.                            *)
C37_DnsConfiguredByRunMode ==
    [][/\ (PhaseAtLeast(disk', "dns_configured") => DnsSettled(disk'))
       /\ ((~PhaseAtLeast(disk, "dns_configured") /\ PhaseAtLeast(disk', "dns_configured")
             /\ cfg.dns_mode \in DnsProviders)
            => /\ RecordsTrackAddresses(disk')
               /\ \A c \in Codes : disk'.records[c].provider = cfg.dns_mode)
       /\ ((PhaseAtLeast(disk, "dns_configured") /\ PhaseAtLeast(disk', "dns_configured"))
            => /\ disk'.records = disk.records
               /\ \A c \in Codes : NodeIpv4(disk', c) = NodeIpv4(disk, c))]_vars

(* A resume with --dns-mode of an automated provider over a document of    *)
(* another mode has saved dns_configured with the four records tracked.    *)
C37_Witness ==
    /\ IsDoc(disk) /\ disk.phase = "dns_configured"
    /\ pc = "write_config_files"
    /\ cfg.dns_mode \in DnsProviders
    /\ disk.dns_mode # cfg.dns_mode
    /\ RecordsTrackAddresses(disk)

----------------------------------------------------------------------------
(* Dry-run. *)

(* A process started with --dry-run is running. *)
DryRunning == pc # "idle" /\ cfg.dry_run

(* C38: in dry-run mode no step of a fresh run, a resume or a destroy       *)
(* writes, renames or removes the state document or the password document,  *)
(* and none issues a provider create, update or delete call for a boot      *)
(* script, a node or a DNS record.                                          *)
C38_DryRunChangesNothing ==
    [][DryRunning => UNCHANGED <<disk, pwfile, archives, pwarchives, scripts, linodes,
                                 nextId, zone, nextRec, createCalls>>]_vars

(* A dry-run destroy has come to archive_state over a state document, a     *)
(* password document, nodes and a boot script that an earlier run left.     *)
C38_Witness ==
    /\ DryRunning /\ cfg.destroy
    /\ pc = "archive_state"
    /\ IsDoc(disk) /\ pwfile # NoPasswords
    /\ linodes # {} /\ scripts # {}

(* A fresh dry-run is past its input checks. *)
FreshDryRunning == DryRunning /\ ~cfg.resume /\ ~cfg.destroy /\ pc # "prompt_inputs"

(* C39: a fresh dry-run with valid inputs runs through all steps and        *)
(* finishes with success in each of the three DNS modes: no step of it ends *)
(* the process with a failure.                                              *)
C39_FreshDryRunSucceeds ==
    [][FreshDryRunning => outcome' \notin {"die", "error"}]_vars

(* The same for the manual mode alone, which holds when every external call *)
(* succeeds (SpecCli).                                                      *)
FreshDryRunManualSucceeds ==
    [][(FreshDryRunning /\ cfg.dns_mode = "manual") => outcome' \notin {"die", "error"}]_vars

(* A fresh dry-run in manual mode has finished with success. *)
FreshDryRunManualDone ==
    /\ pc = "idle" /\ outcome = "ok" /\ runs = 1
    /\ disk = NoFile /\ linodes = {}
    /\ Len(steps) > 0 /\ steps[Len(steps)] = "post_deploy_checks"

----------------------------------------------------------------------------
(* What a completed destroy leaves at the provider. *)

(* The nodes the loaded state tracks by id that the provider still has. *)
TrackedNodesLeft ==
    {l \in linodes : \E c \in Codes : NodeLinodeId(state, c) # 0 /\ l.id = NodeLinodeId(state, c)}

(* archive_state's last step ends a non-dry destroy with success, the state *)
(* document having been renamed.                                            *)
DestroyFinishes == pc = "archive_passwords" /\ outcome' = "ok"

(* C40: when a non-dry-run destroy finishes with success and the state has  *)
(* been archived, no compute node that the pre-destroy state tracked by id  *)
(* still exists at the provider.                                            *)
C40_NoTrackedNodeLeft ==
    [][DestroyFinishes => TrackedNodesLeft = {}]_vars

(* C40, amended: each node delete of a non-dry destroy either removes the   *)
(* tracked node or, when the call fails, leaves the provider's nodes as     *)
(* they are, and the run, unless killed, goes on either way; when a         *)
(* non-dry-run destroy in which every external call succeeded finishes with *)
(* success and the state has been archived, no node the state tracked by id *)
(* still exists.                                                            *)
C40_NoTrackedNodeLeftUnlessDeleteFailed ==
    [][/\ ((pc = "delete_linodes" /\ ~cfg.dry_run /\ NodeLinodeId(state, CodeSeq[i]) # 0
             /\ outcome' # "killed")
            => /\ pc' # "idle"
               /\ linodes' \in {linodes,
                                {l \in linodes : l.id # NodeLinodeId(state, CodeSeq[i])}})
       /\ ((DestroyFinishes /\ stub.fixed) => TrackedNodesLeft = {})]_vars

(* A non-dry destroy whose calls all succeeded has archived a state that    *)
(* tracked four nodes, and the provider has none of them.                   *)
C40_Witness ==
    /\ pc = "archive_passwords" /\ stub.fixed /\ ~cfg.dry_run
    /\ disk = NoFile /\ archives # {}
    /\ \A c \in Codes : NodeLinodeId(state, c) # 0
    /\ TrackedNodesLeft = {}

====
